---------------------------- MODULE Spec2Model ----------------------------
(***************************************************************************)
(* Reservation and review subsystem of the restaurant finder: the FastAPI  *)
(* routers over SQLite and the Next.js API routes over the same schema     *)
(* (both in src/api-endpoints.md), with the REST client of src/lib/api.ts, *)
(* as a state machine.  Each endpoint is an operator from (tables, clock,  *)
(* request) to (tables, status code, body); one action per endpoint        *)
(* applies it to the stored tables.                                        *)
(***************************************************************************)
EXTENDS Integers, Sequences, FiniteSets, TLC

VARIABLES
    reservations,   \* table reservations: id -> row
    reservation_seq,\* AUTOINCREMENT counter of reservations (last id given)
    reviews,        \* table reviews: id -> row
    review_seq,     \* AUTOINCREMENT counter of reviews (last id given)
    clock,          \* CURRENT_TIMESTAMP of the storage engine, in seconds
    writes,         \* number of committed write requests so far
    last,           \* endpoint and status code of the last request answered
    tx,             \* the request inside get_db, statement by statement
    sessions,       \* two requests on connections of their own, statement by statement
    page,           \* RestaurantDetailPage: activeTab, reviewRefreshTrigger
    reservationForm,\* state of the ReservationForm instance of the page
    reviewForm,     \* state of the ReviewForm instance of the page
    reviewsList,    \* state of the ReviewsList instance of the page
    requests        \* the calls of lib/api.ts the components have made

ui == <<page, reservationForm, reviewForm, reviewsList, requests>>

vars == <<reservations, reservation_seq, reviews, review_seq, clock, writes, last, tx, sessions, ui>>

-----------------------------------------------------------------------------
(* Bounds of the model *)

\* committed write requests (INSERT, UPDATE, DELETE) after which a behaviour
\* issues no further write to the reservations table
MaxReservationWrites == 2
\* committed write requests after which a behaviour issues no further write
\* to the reviews table
MaxReviewWrites == 3
\* seconds the storage clock advances
MaxClock == 1
\* calls of lib/api.ts the components of the page make
MaxRequests == 3
\* components the page mounts: the first tab and the clicks on a tab
MaxMounts == 2

-----------------------------------------------------------------------------
(* Values *)

\* SQL NULL / Python None / an absent query parameter; a present value v is <<v>>
NULL == <<>>
Some(v) == <<v>>
IsNull(o) == Len(o) = 0
Val(o) == o[1]

\* Python truthiness of an Optional[str] and of an Optional[int] query parameter
TruthyStr(o) == ~IsNull(o) /\ Val(o) # ""
TruthyInt(o) == ~IsNull(o) /\ Val(o) # 0

EmptyTable == [i \in {} |-> NULL]

\* BINARY collation of the TEXT values the model stores in date and time columns
Collation == <<"18:00", "18:30", "19:00", "2024-12-24", "2024-12-25", "2024-12-26">>
TextRank(s) == CHOOSE i \in 1..Len(Collation) : Collation[i] = s

\* number of characters of the customer and reviewer names the model uses
Name101 == "N101"
StrLen(s) == IF s = "" THEN 0 ELSE IF s = Name101 THEN 101 ELSE 1

\* pydantic EmailStr: rejects a string that is no address, lower-cases the domain
EmailStrValid(s) == s \in {"a@x.com", "a@X.COM", "b@x.com"}
EmailStr(s) == IF s = "a@X.COM" THEN "a@x.com" ELSE s

\* a restaurant id with quote characters and SQL tokens
QuoteId == "' OR '1'='1"

\* a request body or query: JSON object as a function from its keys to
\* Optional values (JSON null is NULL)
Has(body, k) == k \in DOMAIN body
Present(body, k) == Has(body, k) /\ ~IsNull(body[k])

-----------------------------------------------------------------------------
(* Schema and request models of the reservations router *)

ReservationStatus == {"pending", "confirmed", "cancelled"}

\* columns of table reservations declared NOT NULL
ReservationNotNull ==
    {"restaurant_id", "customer_name", "customer_email", "party_size",
     "reservation_date", "reservation_time"}

\* fields of the ReservationUpdate model
ReservationUpdateFields ==
    {"customer_name", "customer_email", "customer_phone", "party_size",
     "reservation_date", "reservation_time", "status", "notes"}

\* value a column stores for a bound parameter: the nullable columns
\* (customer_phone, status, notes) keep the Optional, the others the value
ReservationStored(col, o) == IF col \in ReservationNotNull THEN Val(o) ELSE o

\* ReservationCreate with no upper limit on party_size
ReservationCreateValidNoLe(body) ==
    /\ Present(body, "restaurant_id")
    /\ Present(body, "customer_name")
    /\ StrLen(Val(body["customer_name"])) >= 1
    /\ StrLen(Val(body["customer_name"])) <= 100
    /\ Present(body, "customer_email")
    /\ EmailStrValid(Val(body["customer_email"]))
    /\ Present(body, "party_size")
    /\ Val(body["party_size"]) >= 1
    /\ Present(body, "reservation_date")
    /\ Present(body, "reservation_time")

\* pydantic validation of a POST body against ReservationCreate
ReservationCreateValid(body) ==
    /\ Present(body, "restaurant_id")
    /\ Present(body, "customer_name")
    /\ StrLen(Val(body["customer_name"])) >= 1
    /\ StrLen(Val(body["customer_name"])) <= 100
    /\ Present(body, "customer_email")
    /\ EmailStrValid(Val(body["customer_email"]))
    /\ Present(body, "party_size")
    /\ Val(body["party_size"]) >= 1
    /\ Val(body["party_size"]) <= 20
    /\ Present(body, "reservation_date")
    /\ Present(body, "reservation_time")

\* the validated ReservationCreate object: optional fields default to None
ReservationCreate(body) ==
    [restaurant_id    |-> Val(body["restaurant_id"]),
     customer_name    |-> Val(body["customer_name"]),
     customer_email   |-> EmailStr(Val(body["customer_email"])),
     customer_phone   |-> IF Has(body, "customer_phone") THEN body["customer_phone"] ELSE NULL,
     party_size       |-> Val(body["party_size"]),
     reservation_date |-> Val(body["reservation_date"]),
     reservation_time |-> Val(body["reservation_time"]),
     notes            |-> IF Has(body, "notes") THEN body["notes"] ELSE NULL]

\* ReservationUpdate with status typed as a plain string
ReservationUpdateValidAnyStatus(body) ==
    /\ Present(body, "customer_email") => EmailStrValid(Val(body["customer_email"]))
    /\ Present(body, "party_size") =>
          Val(body["party_size"]) >= 1 /\ Val(body["party_size"]) <= 20

\* pydantic validation of a PATCH body against ReservationUpdate: every field
\* is Optional, a present non-null value must satisfy the field's constraint
ReservationUpdateValid(body) ==
    /\ Present(body, "customer_email") => EmailStrValid(Val(body["customer_email"]))
    /\ Present(body, "party_size") =>
          Val(body["party_size"]) >= 1 /\ Val(body["party_size"]) <= 20
    /\ Present(body, "status") => Val(body["status"]) \in ReservationStatus

\* update.model_dump(exclude_unset=True): the fields of the model the body
\* set (a key that is no field of the model is ignored), validated
ReservationUpdateDump(body) ==
    [k \in DOMAIN body \cap ReservationUpdateFields |->
        IF k = "customer_email" /\ ~IsNull(body[k])
        THEN Some(EmailStr(Val(body[k]))) ELSE body[k]]

-----------------------------------------------------------------------------
(* Scoped transaction *)

\* get_db: commit when the body of the with block returns, roll back and
\* re-raise when it raises.  `before` are the rows when the connection was
\* opened, `result` the handler's outcome with the rows it wrote.
get_db(before, result) ==
    IF result.raised THEN [result EXCEPT !.rows = before] ELSE result

-----------------------------------------------------------------------------
(* Endpoints of the reservations router.  Each yields                       *)
(*   rows: the table after the request, code: the HTTP status,              *)
(*   body: the response body (NULL when there is none).                     *)

Reply(rows, code, body) ==
    [rows |-> rows, code |-> code, body |-> body, detail |-> "", raised |-> FALSE]

\* raise HTTPException(status_code, detail), or an error the framework answers
Raise(rows, code, detail) ==
    [rows |-> rows, code |-> code, body |-> NULL, detail |-> detail, raised |-> TRUE]

\* response_model=ReservationResponse: the row passes the response model,
\* whose status is a str (the one of its required fields a stored row may
\* hold NULL in)
ReservationResponse(row) == ~IsNull(row.status)

\* the framework validating what the handler returned against the response
\* model, after the with block has committed: a value that does not pass is
\* answered 500 (with a body that is no JSON)
response_model(result, valid) ==
    IF result.raised \/ valid THEN result
    ELSE [result EXCEPT !.code = 500, !.body = NULL]

\* the orders in which a query may return the rows with ids S: every listing
\* of S in which a row comes before another only if `le` (the ORDER BY
\* comparison, pairs of ids) allows it; rows that compare equal come in
\* either order
RECURSIVE OrderedBy(_, _)
OrderedBy(S, le) ==
    IF S = {} THEN {<<>>}
    ELSE UNION {{<<m>> \o t : t \in OrderedBy(S \ {m}, le)} :
                  m \in {x \in S : \A y \in S : <<x, y>> \in le}}

\* ORDER BY reservation_date alone
ReservationOrderByDate(a, b) ==
    TextRank(a.reservation_date) <= TextRank(b.reservation_date)

\* ORDER BY reservation_date, reservation_time (ascending, BINARY collation)
ReservationOrderBy(a, b) ==
    \/ TextRank(a.reservation_date) < TextRank(b.reservation_date)
    \/ /\ a.reservation_date = b.reservation_date
       /\ TextRank(a.reservation_time) <= TextRank(b.reservation_time)

\* the two filters joined by OR
ReservationWhereOr(row, restaurant_id, status) ==
    \/ ~TruthyStr(restaurant_id) /\ ~TruthyStr(status)
    \/ TruthyStr(restaurant_id) /\ row.restaurant_id = Val(restaurant_id)
    \/ TruthyStr(status) /\ row.status = Some(Val(status))

\* the restaurant id spliced into the SQL text between quotes: the quotes
\* of QuoteId close the literal and its OR makes the condition true
ReservationWhereConcat(row, restaurant_id, status) ==
    /\ TruthyStr(restaurant_id) =>
          \/ row.restaurant_id = Val(restaurant_id)
          \/ Val(restaurant_id) = QuoteId
    /\ TruthyStr(status) => row.status = Some(Val(status))

\* WHERE 1=1 [AND restaurant_id = ?] [AND status = ?]
ReservationWhere(row, restaurant_id, status) ==
    /\ TruthyStr(restaurant_id) => row.restaurant_id = Val(restaurant_id)
    /\ TruthyStr(status) => row.status = Some(Val(status))

\* GET /api/reservations: the responses the request may get; rows that
\* compare equal under ORDER BY come in an order SQL leaves unspecified
get_reservations(rows, restaurant_id, status) ==
    LET hit == {i \in DOMAIN rows : ReservationWhere(rows[i], restaurant_id, status)}
        le == {p \in hit \X hit : ReservationOrderBy(rows[p[1]], rows[p[2]])}
        lists == {[i \in 1..Len(o) |-> rows[o[i]]] : o \in OrderedBy(hit, le)}
    IN  {response_model(get_db(rows, Reply(rows, 200, Some(l))),
                        \A k \in 1..Len(l) : ReservationResponse(l[k])) : l \in lists}

\* GET /api/reservations/{reservation_id}
get_reservation(rows, reservation_id) ==
    response_model(
        get_db(rows,
            IF reservation_id \notin DOMAIN rows
            THEN Raise(rows, 404, "Reservation not found")
            ELSE Reply(rows, 200, Some(rows[reservation_id]))),
        reservation_id \in DOMAIN rows /\ ReservationResponse(rows[reservation_id]))

\* an INSERT that leaves out the notes column
ReservationInsertNoNotes(id, now, reservation) ==
    [id               |-> id,
     restaurant_id    |-> reservation.restaurant_id,
     customer_name    |-> reservation.customer_name,
     customer_email   |-> reservation.customer_email,
     customer_phone   |-> reservation.customer_phone,
     party_size       |-> reservation.party_size,
     reservation_date |-> reservation.reservation_date,
     reservation_time |-> reservation.reservation_time,
     status           |-> Some("pending"),
     notes            |-> NULL,
     created_at       |-> now,
     updated_at       |-> now]

\* the row INSERT INTO reservations (8 columns) stores: status, created_at
\* and updated_at take their column defaults
ReservationInsert(id, now, reservation) ==
    [id               |-> id,
     restaurant_id    |-> reservation.restaurant_id,
     customer_name    |-> reservation.customer_name,
     customer_email   |-> reservation.customer_email,
     customer_phone   |-> reservation.customer_phone,
     party_size       |-> reservation.party_size,
     reservation_date |-> reservation.reservation_date,
     reservation_time |-> reservation.reservation_time,
     status           |-> Some("pending"),
     notes            |-> reservation.notes,
     created_at       |-> now,
     updated_at       |-> now]

\* POST /api/reservations; seq is the table's AUTOINCREMENT counter
create_reservation(rows, seq, now, body) ==
    IF ~ReservationCreateValid(body)
    THEN Raise(rows, 422, "validation")
    ELSE LET reservation_id == seq + 1
             row == ReservationInsert(reservation_id, now, ReservationCreate(body))
             stored == [i \in DOMAIN rows \cup {reservation_id} |->
                          IF i = reservation_id THEN row ELSE rows[i]]
         IN  response_model(
                 get_db(rows, Reply(stored, 201, Some(stored[reservation_id]))),
                 ReservationResponse(stored[reservation_id]))

\* an UPDATE whose SET clause leaves updated_at alone
ReservationSetStale(row, now, update_data) ==
    [col \in DOMAIN row |->
        IF col \in DOMAIN update_data THEN ReservationStored(col, update_data[col])
        ELSE row[col]]

\* if not update_data, with the test dropped
NoFieldsNever(update_data) == FALSE

\* if not update_data: the dump of the patch is empty
NoFields(update_data) == DOMAIN update_data = {}

\* an UPDATE that stamps created_at in place of updated_at
ReservationSetCreated(row, now, update_data) ==
    [col \in DOMAIN row |->
        IF col \in DOMAIN update_data THEN ReservationStored(col, update_data[col])
        ELSE IF col = "created_at" THEN now
        ELSE row[col]]

\* UPDATE reservations SET <key = ?, ...>, updated_at = CURRENT_TIMESTAMP
ReservationSet(row, now, update_data) ==
    [col \in DOMAIN row |->
        IF col \in DOMAIN update_data THEN ReservationStored(col, update_data[col])
        ELSE IF col = "updated_at" THEN now
        ELSE row[col]]

\* PATCH /api/reservations/{reservation_id}
update_reservation(rows, now, reservation_id, body) ==
    IF ~ReservationUpdateValid(body)
    THEN Raise(rows, 422, "validation")
    ELSE LET result == get_db(rows,
        IF reservation_id \notin DOMAIN rows
        THEN Raise(rows, 404, "Reservation not found")
        ELSE LET update_data == ReservationUpdateDump(body)
             IN  IF NoFields(update_data)
                 THEN Raise(rows, 400, "No fields to update")
                 ELSE IF \E col \in DOMAIN update_data :
                            col \in ReservationNotNull /\ IsNull(update_data[col])
                 THEN Raise(rows, 500, "")  \* IntegrityError: NOT NULL constraint
                 ELSE LET stored == [rows EXCEPT ![reservation_id] =
                                        ReservationSet(@, now, update_data)]
                      IN  Reply(stored, 200, Some(stored[reservation_id])))
         IN  response_model(result,
                 reservation_id \in DOMAIN result.rows
                   /\ ReservationResponse(result.rows[reservation_id]))

\* DELETE /api/reservations/{reservation_id}
delete_reservation(rows, reservation_id) ==
    get_db(rows,
        IF reservation_id \notin DOMAIN rows
        THEN Raise(rows, 404, "Reservation not found")
        ELSE Reply([i \in DOMAIN rows \ {reservation_id} |-> rows[i]], 204, NULL))

\* SUM(rating) over the rows with the given ids
RECURSIVE SumRating(_, _)
SumRating(rows, ids) ==
    IF ids = {} THEN 0
    ELSE LET i == CHOOSE x \in ids : TRUE
         IN  rows[i].rating + SumRating(rows, ids \ {i})

-----------------------------------------------------------------------------
(* Schema and request model of the reviews router *)

\* ReviewCreate with no upper limit on rating
ReviewCreateValidNoLe(body) ==
    /\ Present(body, "restaurant_id")
    /\ Present(body, "reviewer_name")
    /\ StrLen(Val(body["reviewer_name"])) >= 1
    /\ StrLen(Val(body["reviewer_name"])) <= 100
    /\ Present(body, "reviewer_email") => EmailStrValid(Val(body["reviewer_email"]))
    /\ Present(body, "rating")
    /\ Val(body["rating"]) >= 1
    /\ Present(body, "title") => StrLen(Val(body["title"])) <= 200

\* pydantic validation of a POST body against ReviewCreate
ReviewCreateValid(body) ==
    /\ Present(body, "restaurant_id")
    /\ Present(body, "reviewer_name")
    /\ StrLen(Val(body["reviewer_name"])) >= 1
    /\ StrLen(Val(body["reviewer_name"])) <= 100
    /\ Present(body, "reviewer_email") => EmailStrValid(Val(body["reviewer_email"]))
    /\ Present(body, "rating")
    /\ Val(body["rating"]) >= 1
    /\ Val(body["rating"]) <= 5
    /\ Present(body, "title") => StrLen(Val(body["title"])) <= 200

\* the validated ReviewCreate object: optional fields default to None
ReviewCreate(body) ==
    LET opt(k) == IF Has(body, k) THEN body[k] ELSE NULL
    IN  [restaurant_id  |-> Val(body["restaurant_id"]),
         reviewer_name  |-> Val(body["reviewer_name"]),
         reviewer_email |-> IF Present(body, "reviewer_email")
                            THEN Some(EmailStr(Val(body["reviewer_email"]))) ELSE NULL,
         rating         |-> Val(body["rating"]),
         title          |-> opt("title"),
         comment        |-> opt("comment"),
         visit_date     |-> opt("visit_date")]

-----------------------------------------------------------------------------
(* Endpoints of the reviews router *)

\* ORDER BY {sort_by} DESC whatever the order parameter
ReviewOrderByDesc(a, b, sort_by, order) == a[sort_by] >= b[sort_by]

\* ORDER BY {sort_by} {order.upper()}
ReviewOrderBy(a, b, sort_by, order) ==
    IF order = "asc" THEN a[sort_by] <= b[sort_by] ELSE a[sort_by] >= b[sort_by]

\* WHERE 1=1 [AND restaurant_id = ?] [AND rating >= ?]
ReviewWhere(row, restaurant_id, min_rating) ==
    /\ TruthyStr(restaurant_id) => row.restaurant_id = Val(restaurant_id)
    /\ TruthyInt(min_rating) => row.rating >= Val(min_rating)

\* FROM reviews [WHERE restaurant_id = ?] of the stats query
StatsWhere(row, restaurant_id) ==
    TruthyStr(restaurant_id) => row.restaurant_id = Val(restaurant_id)

\* the average cut to two decimals instead of rounded
Round2Floor(sum, n) == (100 * sum) \div n

\* round(AVG(rating), 2) in hundredths: Python rounds an exact tie to even
Round2(sum, n) ==
    LET q == (100 * sum) \div n
        r == (100 * sum) % n
    IN  IF 2 * r < n THEN q
        ELSE IF 2 * r > n THEN q + 1
        ELSE IF q % 2 = 0 THEN q ELSE q + 1

\* SELECT AVG(rating), COUNT(*) and the ReviewStats built from the row;
\* avg_rating is in hundredths, NULL when AVG is NULL or 0
ReviewStats(rows, restaurant_id) ==
    LET hit == {i \in DOMAIN rows : StatsWhere(rows[i], restaurant_id)}
        n == Cardinality(hit)
        sum == SumRating(rows, hit)
    IN  [avg_rating    |-> IF n # 0 /\ sum # 0 THEN Some(Round2(sum, n)) ELSE NULL,
         total_reviews |-> n]

\* validation of the query parameters of GET /api/reviews
ReviewQueryValid(min_rating, sort_by, order) ==
    /\ ~IsNull(min_rating) => Val(min_rating) >= 1 /\ Val(min_rating) <= 5
    /\ ~IsNull(sort_by) => Val(sort_by) \in {"created_at", "rating"}
    /\ ~IsNull(order) => Val(order) \in {"asc", "desc"}

\* a get_reviews whose stats query carries the min_rating condition too
get_reviews_min_stats(rows, restaurant_id, min_rating, sort_by, order) ==
    IF ~ReviewQueryValid(min_rating, sort_by, order) THEN {}
    ELSE
    LET by == IF IsNull(sort_by) THEN "created_at" ELSE Val(sort_by)
        ord == IF IsNull(order) THEN "desc" ELSE Val(order)
        hit == {i \in DOMAIN rows : ReviewWhere(rows[i], restaurant_id, min_rating)}
        stats == ReviewStats([i \in hit |-> rows[i]], restaurant_id)
        le == {p \in hit \X hit : ReviewOrderBy(rows[p[1]], rows[p[2]], by, ord)}
    IN  {[reviews |-> [i \in 1..Len(o) |-> rows[o[i]]], stats |-> stats] :
            o \in OrderedBy(hit, le)}

\* GET /api/reviews: the responses the engine may produce (code 200), each a
\* list of reviews with the stats; empty when the query is rejected (422)
get_reviews(rows, restaurant_id, min_rating, sort_by, order) ==
    IF ~ReviewQueryValid(min_rating, sort_by, order) THEN {}
    ELSE
    LET by == IF IsNull(sort_by) THEN "created_at" ELSE Val(sort_by)
        ord == IF IsNull(order) THEN "desc" ELSE Val(order)
        hit == {i \in DOMAIN rows : ReviewWhere(rows[i], restaurant_id, min_rating)}
        stats == ReviewStats(rows, restaurant_id)
        le == {p \in hit \X hit : ReviewOrderBy(rows[p[1]], rows[p[2]], by, ord)}
    IN  {[reviews |-> [i \in 1..Len(o) |-> rows[o[i]]], stats |-> stats] :
            o \in OrderedBy(hit, le)}

\* GET /api/reviews/{review_id}
get_review(rows, review_id) ==
    get_db(rows,
        IF review_id \notin DOMAIN rows
        THEN Raise(rows, 404, "Review not found")
        ELSE Reply(rows, 200, Some(rows[review_id])))

\* the row INSERT INTO reviews (7 columns) stores: created_at takes its default
ReviewInsert(id, now, review) ==
    [id             |-> id,
     restaurant_id  |-> review.restaurant_id,
     reviewer_name  |-> review.reviewer_name,
     reviewer_email |-> review.reviewer_email,
     rating         |-> review.rating,
     title          |-> review.title,
     comment        |-> review.comment,
     visit_date     |-> review.visit_date,
     created_at     |-> now]

\* a create_review whose INSERT replaces the row of the last id given
create_review_replace(rows, seq, now, body) ==
    IF ~ReviewCreateValid(body)
    THEN Raise(rows, 422, "validation")
    ELSE LET review_id == IF seq = 0 THEN 1 ELSE seq
             row == ReviewInsert(review_id, now, ReviewCreate(body))
             stored == [i \in DOMAIN rows \cup {review_id} |->
                          IF i = review_id THEN row ELSE rows[i]]
         IN  get_db(rows, Reply(stored, 201, Some(stored[review_id])))

\* POST /api/reviews; seq is the table's AUTOINCREMENT counter
create_review(rows, seq, now, body) ==
    IF ~ReviewCreateValid(body)
    THEN Raise(rows, 422, "validation")
    ELSE LET review_id == seq + 1
             row == ReviewInsert(review_id, now, ReviewCreate(body))
             stored == [i \in DOMAIN rows \cup {review_id} |->
                          IF i = review_id THEN row ELSE rows[i]]
         IN  get_db(rows,
                 IF ~(row.rating >= 1 /\ row.rating <= 5)  \* CHECK of table reviews
                 THEN Raise(rows, 500, "")  \* IntegrityError: CHECK constraint
                 ELSE Reply(stored, 201, Some(stored[review_id])))

\* a delete_review that answers 204 without the DELETE statement
delete_review_kept(rows, review_id) ==
    get_db(rows,
        IF review_id \notin DOMAIN rows
        THEN Raise(rows, 404, "Review not found")
        ELSE Reply(rows, 204, NULL))

\* DELETE /api/reviews/{review_id}
delete_review(rows, review_id) ==
    get_db(rows,
        IF review_id \notin DOMAIN rows
        THEN Raise(rows, 404, "Review not found")
        ELSE Reply([i \in DOMAIN rows \ {review_id} |-> rows[i]], 204, NULL))

-----------------------------------------------------------------------------
(* The Next.js API routes over the same schema (app/api/.../route.ts).      *)
(* A body is a JSON object with camelCase keys; a key the body lacks reads  *)
(* as undefined, which is bound as NULL like a JSON null.                   *)

\* body.k as stmt.run binds it
Bound(body, k) == IF Has(body, k) THEN body[k] ELSE NULL

\* POST of app/api/reservations/route.ts: binds the body as it is
reservations_route_POST(rows, seq, now, body) ==
    IF \E k \in {"restaurantId", "customerName", "customerEmail", "partySize",
                 "reservationDate", "reservationTime"} : IsNull(Bound(body, k))
    THEN Raise(rows, 500, "")
    ELSE LET id == seq + 1
             row == ReservationInsert(id, now,
                       [restaurant_id    |-> Val(Bound(body, "restaurantId")),
                        customer_name    |-> Val(Bound(body, "customerName")),
                        customer_email   |-> Val(Bound(body, "customerEmail")),
                        customer_phone   |-> Bound(body, "customerPhone"),
                        party_size       |-> Val(Bound(body, "partySize")),
                        reservation_date |-> Val(Bound(body, "reservationDate")),
                        reservation_time |-> Val(Bound(body, "reservationTime")),
                        notes            |-> Bound(body, "notes")])
             stored == [i \in DOMAIN rows \cup {id} |-> IF i = id THEN row ELSE rows[i]]
         IN  Reply(stored, 201, Some([id |-> id]))

\* GET of app/api/reservations/route.ts: WHERE restaurant_id = ? with the
\* restaurantId parameter, null when the query has none (no row equals NULL);
\* any other parameter is not read
reservations_route_GET(rows, searchParams) ==
    LET restaurantId == Bound(searchParams, "restaurantId")
        hit == {i \in DOMAIN rows :
                  ~IsNull(restaurantId) /\ rows[i].restaurant_id = Val(restaurantId)}
        le == {p \in hit \X hit : ReservationOrderBy(rows[p[1]], rows[p[2]])}
    IN  {[i \in 1..Len(o) |-> rows[o[i]]] : o \in OrderedBy(hit, le)}

\* POST of app/api/reviews/route.ts; the table's CHECK on rating and its
\* NOT NULL columns make the INSERT throw
reviews_route_POST(rows, seq, now, body) ==
    IF \/ \E k \in {"restaurantId", "reviewerName", "rating"} : IsNull(Bound(body, k))
       \/ Val(Bound(body, "rating")) < 1
       \/ Val(Bound(body, "rating")) > 5
    THEN Raise(rows, 500, "")
    ELSE LET id == seq + 1
             row == [id             |-> id,
                     restaurant_id  |-> Val(Bound(body, "restaurantId")),
                     reviewer_name  |-> Val(Bound(body, "reviewerName")),
                     reviewer_email |-> Bound(body, "reviewerEmail"),
                     rating         |-> Val(Bound(body, "rating")),
                     title          |-> Bound(body, "title"),
                     comment        |-> Bound(body, "comment"),
                     visit_date     |-> Bound(body, "visitDate"),
                     created_at     |-> now]
             stored == [i \in DOMAIN rows \cup {id} |-> IF i = id THEN row ELSE rows[i]]
         IN  Reply(stored, 201, Some([id |-> id]))

\* GET of app/api/reviews/route.ts: the reviews of the restaurant, newest
\* first, and AVG(rating), COUNT(*) as the engine returns them: avgRating is
\* the exact quotient num / den, NULL over no rows
reviews_route_GET(rows, searchParams) ==
    LET restaurantId == Bound(searchParams, "restaurantId")
        hit == {i \in DOMAIN rows :
                  ~IsNull(restaurantId) /\ rows[i].restaurant_id = Val(restaurantId)}
        le == {p \in hit \X hit : rows[p[1]].created_at >= rows[p[2]].created_at}
        n == Cardinality(hit)
        stats == [avgRating    |-> IF n = 0 THEN NULL
                                   ELSE Some([num |-> SumRating(rows, hit), den |-> n]),
                  totalReviews |-> n]
    IN  {[reviews |-> [i \in 1..Len(o) |-> rows[o[i]]], stats |-> stats] :
            o \in OrderedBy(hit, le)}

-----------------------------------------------------------------------------
(* Client adapter (lib/api.ts) *)

\* String(v) as new Error(v) applies it to its argument: a string is itself,
\* an array is its elements joined by commas, an object is [object Object].
\* The detail of a 422 body is the list of the validation errors, one object
\* per error (the endpoints write it "validation").
JS_String(v) == IF v = "validation" THEN "[object Object]" ELSE v

\* apiFetch on a response: unless response.ok it rejects with the body's
\* detail as new Error(...) converts it, or with 'API error: <status>' when
\* the body is no JSON or its detail is falsy (the message is the sequence
\* of its parts); it resolves to undefined on 204 and to the JSON body
\* otherwise
apiFetch(response) ==
    IF response.code < 200 \/ response.code > 299
    THEN [rejected |-> TRUE, value |-> NULL,
          message |-> IF response.detail # "" THEN <<JS_String(response.detail)>>
                      ELSE <<"API error: ", response.code>>]
    ELSE [rejected |-> FALSE, message |-> <<>>,
          value |-> IF response.code = 204 THEN NULL ELSE response.body]

\* getReservation(id) and deleteReservation(id) against the FastAPI backend:
\* the rows after the call and what the promise settles to
getReservation(rows, id) ==
    LET r == get_reservation(rows, id) IN [rows |-> r.rows, result |-> apiFetch(r)]
deleteReservation(rows, id) ==
    LET r == delete_reservation(rows, id) IN [rows |-> r.rows, result |-> apiFetch(r)]

\* a property of a JavaScript object that is undefined
UNDEFINED == <<"undefined", "undefined">>

\* JSON.stringify(data): the properties of the object but those that are
\* undefined; null is kept
JSON_stringify(data) == [k \in {x \in DOMAIN data : data[x] # UNDEFINED} |-> data[k]]

\* updateReservation(id, data): the request it sends, the rows after it and
\* what the promise settles to
updateReservation(rows, now, id, data) ==
    LET request == [method |-> "PATCH", id |-> id, body |-> JSON_stringify(data)]
        r == update_reservation(rows, now, request.id, request.body)
    IN  [request |-> request, rows |-> r.rows, result |-> apiFetch(r)]

\* a cancelReservation that sends DELETE
cancelReservation_delete(rows, now, id) ==
    LET request == [method |-> "DELETE", id |-> id, body |-> [k \in {} |-> NULL]]
        r == delete_reservation(rows, request.id)
    IN  [request |-> request, rows |-> r.rows, result |-> apiFetch(r)]

\* cancelReservation(id)
cancelReservation(rows, now, id) ==
    updateReservation(rows, now, id, [status |-> Some("cancelled")])

\* getReviews: the query string it builds; a parameter is set only when the
\* argument is truthy
getReviews(restaurantId, options) ==
    LET opt(k) == IF Has(options, k) THEN options[k] ELSE NULL
    IN  [restaurant_id |-> IF TruthyStr(restaurantId) THEN restaurantId ELSE NULL,
         min_rating    |-> IF TruthyInt(opt("minRating")) THEN opt("minRating") ELSE NULL,
         sort_by       |-> IF TruthyStr(opt("sortBy")) THEN opt("sortBy") ELSE NULL,
         order         |-> IF TruthyStr(opt("order")) THEN opt("order") ELSE NULL]

-----------------------------------------------------------------------------
(* Requests the model issues *)

With(body, k, o) == [x \in DOMAIN body \cup {k} |-> IF x = k THEN o ELSE body[x]]
Without(body, k) == [x \in DOMAIN body \ {k} |-> body[x]]
Single(k, o) == [x \in {k} |-> o]
EmptyBody == [x \in {} |-> NULL]

\* ids a request may address: every id the table can have given, so that
\* some of them are not stored
ReservationIds == 1..MaxReservationWrites
ReviewIds == 1..MaxReviewWrites

BaseReservation ==
    [restaurant_id    |-> Some("r1"),
     customer_name    |-> Some("A"),
     customer_email   |-> Some("a@x.com"),
     party_size       |-> Some(1),
     reservation_date |-> Some("2024-12-26"),
     reservation_time |-> Some("19:00")]

\* a body that sets the optional fields too
FullReservation ==
    [restaurant_id    |-> Some("r2"),
     customer_name    |-> Some("A"),
     customer_email   |-> Some("a@X.COM"),
     customer_phone   |-> Some("555"),
     party_size       |-> Some(20),
     reservation_date |-> Some("2024-12-25"),
     reservation_time |-> Some("19:00"),
     notes            |-> Some("n")]

\* POST /api/reservations bodies: valid ones that differ in restaurant, date,
\* party size and optional fields, and ones validation rejects
ReservationBodies ==
    {BaseReservation, FullReservation,
     With(BaseReservation, "reservation_time", Some("18:30")),
     With(BaseReservation, "party_size", Some(0)),
     With(BaseReservation, "party_size", Some(21)),
     With(BaseReservation, "party_size", NULL),
     With(BaseReservation, "customer_email", Some("bad")),
     With(BaseReservation, "customer_name", Some("")),
     With(BaseReservation, "customer_name", Some(Name101)),
     Without(BaseReservation, "restaurant_id")}

\* PATCH /api/reservations/{id} bodies: one field each, an explicit null,
\* two fields, none, a key that is no field of the model, invalid values
ReservationPatches ==
    {Single("customer_name", Some("B")),
     Single("customer_email", Some("b@x.com")),
     Single("customer_phone", Some("555")),
     Single("party_size", Some(4)),
     Single("reservation_date", Some("2024-12-24")),
     Single("reservation_time", Some("18:00")),
     Single("status", Some("confirmed")),
     Single("status", Some("cancelled")),
     Single("notes", Some("n")),
     Single("status", NULL),
     Single("party_size", NULL),
     With(Single("party_size", Some(4)), "status", Some("confirmed")),
     EmptyBody,
     Single("restaurant_id", Some("r2")),
     Single("party_size", Some(0)),
     Single("party_size", Some(21)),
     Single("status", Some("bogus")),
     Single("customer_email", Some("bad"))}

\* query parameters of GET /api/reservations
ReservationRestaurantFilters == {NULL, Some(""), Some("r1"), Some(QuoteId)}
ReservationStatusFilters == {NULL, Some("pending"), Some("cancelled")}

BaseReview ==
    [restaurant_id |-> Some("r1"),
     reviewer_name |-> Some("A"),
     rating        |-> Some(5)]

\* POST /api/reviews bodies
ReviewBodies ==
    {With(BaseReview, "rating", Some(n)) : n \in {0, 1, 4, 5, 6}}
    \cup {With(With(With(BaseReview, "restaurant_id", Some("r2")),
                    "reviewer_email", Some("a@X.COM")), "title", Some("t")),
          With(BaseReview, "reviewer_email", Some("bad")),
          With(BaseReview, "reviewer_name", Some("")),
          Without(BaseReview, "rating")}

\* POST bodies of the Next.js routes
RouteReservation(r, n) ==
    [restaurantId    |-> Some(r),
     customerName    |-> Some("A"),
     customerEmail   |-> Some("a@x.com"),
     customerPhone   |-> NULL,
     partySize       |-> Some(n),
     reservationDate |-> Some("2024-12-25"),
     reservationTime |-> Some("19:00"),
     notes           |-> NULL]

RouteReview(r, n) ==
    [restaurantId  |-> Some(r),
     reviewerName  |-> Some("A"),
     reviewerEmail |-> NULL,
     rating        |-> Some(n),
     title         |-> NULL,
     comment       |-> NULL,
     visitDate     |-> NULL]

\* query strings of the Next.js GET routes
RouteQueries ==
    {EmptyBody, Single("restaurantId", Some("r1")), Single("restaurantId", Some("r2")),
     Single("status", Some("cancelled")),
     With(Single("restaurantId", Some("r1")), "status", Some("pending"))}

-----------------------------------------------------------------------------
(* Components of the restaurant detail page.  A component has state only    *)
(* while it is mounted; `instance` tells the mounts of a component apart.   *)
(* A string or number of a form is <<v>>, as in a request body.             *)

\* restaurant.id of the page, the restaurantId prop of its components
RestaurantId == "r1"

\* createReview(data), createReservation(data): the body of the POST request
createReview(data) == JSON_stringify(data)
createReservation(data) == JSON_stringify(data)

\* fetch itself rejects (the request never reaches the backend)
FailedToFetch == [rejected |-> TRUE, value |-> NULL, message |-> <<"Failed to fetch">>]

\* a call of lib/api.ts by the component mounted as `instance`
Call(name, instance, arg) ==
    [call |-> name, instance |-> instance, arg |-> arg, pc |-> "sent",
     result |-> [rejected |-> FALSE, value |-> NULL, message |-> <<>>]]

\* ReviewForm: useState of formData, isSubmitting, error
ReviewFormData(restaurantId) ==
    [restaurant_id  |-> Some(restaurantId),
     reviewer_name  |-> Some(""),
     reviewer_email |-> Some(""),
     rating         |-> Some(0),
     title          |-> Some(""),
     comment        |-> Some(""),
     visit_date     |-> Some("")]

ReviewForm(mounted, instance) ==
    [mounted |-> mounted, instance |-> instance,
     formData |-> ReviewFormData(RestaurantId), isSubmitting |-> FALSE, error |-> NULL]

\* handleChange and handleRatingClick of ReviewForm
ReviewForm_handleChange(form, name, value) ==
    [form EXCEPT !.formData[name] = Some(value), !.error = NULL]

ReviewForm_handleRatingClick(form, rating) ==
    [form EXCEPT !.formData.rating = Some(rating), !.error = NULL]

\* the submit button of a form is disabled={isSubmitting}
never_disabled(form) == FALSE
disabled(form) == form.isSubmitting

\* the browser lets the ReviewForm submit: its button is enabled, the required
\* name is filled in and the type=email input is empty or an address
ReviewForm_onSubmit(form) ==
    /\ ~disabled(form)
    /\ Val(form.formData.reviewer_name) # ""
    /\ Val(form.formData.reviewer_email) \in {"", "a@x.com"}

\* a handleSubmit of ReviewForm without the check of the rating
ReviewForm_handleSubmit_unchecked(form) ==
    [form  |-> [form EXCEPT !.isSubmitting = TRUE, !.error = NULL],
     calls |-> <<Call("createReview", form.instance, createReview(form.formData))>>]

\* handleSubmit of ReviewForm up to its await: the state it sets and the
\* calls it makes
ReviewForm_handleSubmit(form) ==
    IF Val(form.formData.rating) = 0
    THEN [form  |-> [form EXCEPT !.error = Some(<<"Please select a rating">>)],
          calls |-> <<>>]
    ELSE [form  |-> [form EXCEPT !.isSubmitting = TRUE, !.error = NULL],
          calls |-> <<Call("createReview", form.instance, createReview(form.formData))>>]

\* a continuation that leaves isSubmitting set when the call is rejected
ReviewForm_settled_no_finally(form, result) ==
    IF ~result.rejected
    THEN [form EXCEPT !.formData = ReviewFormData(RestaurantId), !.isSubmitting = FALSE]
    ELSE [form EXCEPT !.error = Some(result.message)]

\* handleSubmit of ReviewForm after its await: try, catch and finally
ReviewForm_settled(form, result) ==
    IF ~result.rejected
    THEN [form EXCEPT !.formData = ReviewFormData(RestaurantId), !.isSubmitting = FALSE]
    ELSE [form EXCEPT !.error = Some(result.message), !.isSubmitting = FALSE]

\* ReservationForm: useState of formData, isSubmitting, error, success
ReservationFormData(restaurantId) ==
    [restaurant_id    |-> Some(restaurantId),
     customer_name    |-> Some(""),
     customer_email   |-> Some(""),
     customer_phone   |-> Some(""),
     party_size       |-> Some(2),
     reservation_date |-> Some(""),
     reservation_time |-> Some(""),
     notes            |-> Some("")]

ReservationForm(mounted, instance) ==
    [mounted |-> mounted, instance |-> instance,
     formData |-> ReservationFormData(RestaurantId),
     isSubmitting |-> FALSE, error |-> NULL, success |-> FALSE]

\* parseInt(value, 10) of the value of a party size option
parseInt(value) == CASE value = "2" -> 2 [] value = "4" -> 4 [] value = "20" -> 20

ReservationForm_handleChange(form, name, value) ==
    [form EXCEPT !.formData[name] = Some(IF name = "party_size" THEN parseInt(value) ELSE value),
                 !.error = NULL]

\* the browser lets the ReservationForm submit: the form is rendered (not the
\* confirmation), its button is enabled and the required fields are filled in
ReservationForm_onSubmit(form) ==
    /\ ~form.success
    /\ ~disabled(form)
    /\ Val(form.formData.customer_name) # ""
    /\ Val(form.formData.customer_email) # ""
    /\ Val(form.formData.reservation_date) # ""
    /\ Val(form.formData.reservation_time) # ""

\* handleSubmit of ReservationForm up to its await
ReservationForm_handleSubmit(form) ==
    [form  |-> [form EXCEPT !.isSubmitting = TRUE, !.error = NULL],
     calls |-> <<Call("createReservation", form.instance, createReservation(form.formData))>>]

\* handleSubmit of ReservationForm after its await
ReservationForm_settled(form, result) ==
    IF ~result.rejected
    THEN [form EXCEPT !.success = TRUE, !.formData = ReservationFormData(RestaurantId),
                      !.isSubmitting = FALSE]
    ELSE [form EXCEPT !.error = Some(result.message), !.isSubmitting = FALSE]

\* ReviewsList: useState of reviews, stats, loading, error, sortBy, sortOrder
ReviewsList(mounted, instance) ==
    [mounted |-> mounted, instance |-> instance,
     reviews |-> <<>>, stats |-> NULL, loading |-> TRUE, error |-> NULL,
     sortBy |-> "created_at", sortOrder |-> "desc"]

\* e.target.value.split('-') of an option of the sort control
split(value) ==
    CASE value = "created_at-desc" -> <<"created_at", "desc">>
      [] value = "created_at-asc"  -> <<"created_at", "asc">>
      [] value = "rating-desc"     -> <<"rating", "desc">>
      [] value = "rating-asc"      -> <<"rating", "asc">>

\* the sort control is rendered: the list is, and it has more than one review
ReviewsList_select(list) ==
    /\ ~list.loading
    /\ IsNull(list.error)
    /\ Len(list.reviews) > 1

\* onChange of the sort control
ReviewsList_onChange(list, value) ==
    [list EXCEPT !.sortBy = split(value)[1], !.sortOrder = split(value)[2]]

\* the dependencies of the effect of ReviewsList
ReviewsList_deps(list, refreshTrigger) ==
    <<RestaurantId, list.sortBy, list.sortOrder, refreshTrigger>>

\* fetchReviews up to its await
fetchReviews(list) ==
    [list  |-> [list EXCEPT !.loading = TRUE, !.error = NULL],
     calls |-> <<Call("getReviews", list.instance,
                      getReviews(Some(RestaurantId),
                                 [sortBy |-> Some(list.sortBy), order |-> Some(list.sortOrder)]))>>]

\* useEffect of ReviewsList after a render: fetchReviews runs when the
\* component has just mounted or a dependency differs from the last render's
useEffect(list, mount, before, after) ==
    IF list.mounted /\ (mount \/ before # after)
    THEN fetchReviews(list)
    ELSE [list |-> list, calls |-> <<>>]

\* fetchReviews after its await
fetchReviews_settled(list, result) ==
    IF ~result.rejected
    THEN [list EXCEPT !.reviews = Val(result.value).reviews,
                      !.stats = Some(Val(result.value).stats), !.loading = FALSE]
    ELSE [list EXCEPT !.error = Some(result.message), !.loading = FALSE]

\* onSuccess of the ReviewForm of the page: setReviewRefreshTrigger((n) => n + 1)
onSuccess_nothing(n) == n
onSuccess(n) == n + 1

\* RestaurantDetailPage: useState of activeTab and reviewRefreshTrigger; mounts
\* counts the components the page has mounted
RestaurantDetailPage ==
    [activeTab |-> "reservation", reviewRefreshTrigger |-> 0, mounts |-> 1]

\* the backend answers a call: the tables after it and the results apiFetch
\* may settle to
Backend(request) ==
    CASE request.call = "createReview" ->
           LET r == create_review(reviews, review_seq, clock, request.arg)
           IN  {[reviews |-> r.rows, review_seq |-> IF r.raised THEN review_seq ELSE review_seq + 1,
                 reservations |-> reservations, reservation_seq |-> reservation_seq,
                 result |-> apiFetch(r)]}
      [] request.call = "createReservation" ->
           LET r == create_reservation(reservations, reservation_seq, clock, request.arg)
           IN  {[reviews |-> reviews, review_seq |-> review_seq,
                 reservations |-> r.rows,
                 reservation_seq |-> IF r.raised THEN reservation_seq ELSE reservation_seq + 1,
                 result |-> apiFetch(r)]}
      [] request.call = "getReviews" ->
           LET q == request.arg
               found == get_reviews(reviews, q.restaurant_id, q.min_rating, q.sort_by, q.order)
               replies == IF found = {} THEN {Raise(reviews, 422, "validation")}
                          ELSE {Reply(reviews, 200, Some(l)) : l \in found}
           IN  {[reviews |-> reviews, review_seq |-> review_seq,
                 reservations |-> reservations, reservation_seq |-> reservation_seq,
                 result |-> apiFetch(r)] : r \in replies}

-----------------------------------------------------------------------------
(* The state machine *)

Answer(op, code) == [op |-> op, code |-> code]

\* get_db_connection(): a new open connection
get_db_connection == "open"

\* a finally clause that leaves the connection as it is
close_leak(conn) == conn

\* conn.close()
close(conn) == "closed"

\* conn.commit(): the content the connection wrote becomes the stored one
commit(before, content) == content

\* conn.rollback() with the writes left in place
rollback_kept(before, content) == content

\* conn.rollback(): the content is again what it was when the transaction began
rollback(before, content) == before

\* a request that has not been made: no connection, nothing written
NoSession ==
    [pc |-> "idle", conn |-> "none", req |-> NULL, written |-> NULL,
     code |-> 0, body |-> NULL, error |-> NULL]

\* neither of the two requests has been made
NoSessions == [c \in {"PATCH", "DELETE"} |-> NoSession]

\* no request is inside get_db
TxIdle ==
    [pc |-> "idle", conn |-> "none", req |-> NULL,
     before |-> [rows |-> EmptyTable, seq |-> 0],
     work |-> [rows |-> EmptyTable, seq |-> 0],
     ran |-> FALSE, code |-> 0, error |-> NULL, committed |-> FALSE]

Init ==
    /\ tx = TxIdle
    /\ sessions = NoSessions
    /\ reservations = EmptyTable
    /\ reservation_seq = 0
    /\ reviews = EmptyTable
    /\ review_seq = 0
    /\ clock = 0
    /\ writes = 0
    /\ last = Answer("none", 0)
    /\ page = RestaurantDetailPage
    /\ reservationForm = ReservationForm(TRUE, 1)
    /\ reviewForm = ReviewForm(FALSE, 1)
    /\ reviewsList = ReviewsList(FALSE, 1)
    /\ requests = <<>>

\* the storage clock advances by a second
Tick ==
    /\ clock < MaxClock
    /\ clock' = clock + 1
    /\ UNCHANGED <<ui, sessions, tx, reservations, reservation_seq, reviews, review_seq, writes, last>>

\* a committed write counts against the budget of the behaviour
Commit(r, bound) ==
    /\ ~r.raised => writes < bound
    /\ writes' = IF r.raised THEN writes ELSE writes + 1

GetReservations ==
    \E restaurant_id \in ReservationRestaurantFilters, status \in ReservationStatusFilters :
      \E r \in get_reservations(reservations, restaurant_id, status) :
      /\ last' = Answer("get_reservations", r.code)
      /\ UNCHANGED <<ui, sessions, tx, reservations, reservation_seq, reviews, review_seq, clock, writes>>

GetReservation ==
    \E reservation_id \in ReservationIds :
      LET r == get_reservation(reservations, reservation_id)
      IN  /\ last' = Answer("get_reservation", r.code)
          /\ UNCHANGED <<ui, sessions, tx, reservations, reservation_seq, reviews, review_seq, clock, writes>>

CreateReservation ==
    \E body \in ReservationBodies :
      LET r == create_reservation(reservations, reservation_seq, clock, body)
      IN  /\ Commit(r, MaxReservationWrites)
          /\ reservations' = r.rows
          /\ reservation_seq' = IF r.raised THEN reservation_seq ELSE reservation_seq + 1
          /\ last' = Answer("create_reservation", r.code)
          /\ UNCHANGED <<ui, sessions, tx, reviews, review_seq, clock>>

UpdateReservation ==
    \E reservation_id \in ReservationIds, body \in ReservationPatches :
      LET r == update_reservation(reservations, clock, reservation_id, body)
      IN  /\ Commit(r, MaxReservationWrites)
          /\ reservations' = r.rows
          /\ last' = Answer("update_reservation", r.code)
          /\ UNCHANGED <<ui, sessions, tx, reservation_seq, reviews, review_seq, clock>>

DeleteReservation ==
    \E reservation_id \in ReservationIds :
      LET r == delete_reservation(reservations, reservation_id)
      IN  /\ Commit(r, MaxReservationWrites)
          /\ reservations' = r.rows
          /\ last' = Answer("delete_reservation", r.code)
          /\ UNCHANGED <<ui, sessions, tx, reservation_seq, reviews, review_seq, clock>>

GetReviews ==
    \E restaurant_id \in {NULL, Some(""), Some("r1"), Some(QuoteId)},
       min_rating \in {NULL, Some(4)},
       sort_by \in {NULL, Some("rating"), Some("id")}, order \in {NULL, Some("asc")} :
      /\ \/ /\ ~ReviewQueryValid(min_rating, sort_by, order)
            /\ last' = Answer("get_reviews", 422)
         \/ /\ get_reviews(reviews, restaurant_id, min_rating, sort_by, order) # {}
            /\ last' = Answer("get_reviews", 200)
      /\ UNCHANGED <<ui, sessions, tx, reservations, reservation_seq, reviews, review_seq, clock, writes>>

GetReview ==
    \E review_id \in ReviewIds :
      LET r == get_review(reviews, review_id)
      IN  /\ last' = Answer("get_review", r.code)
          /\ UNCHANGED <<ui, sessions, tx, reservations, reservation_seq, reviews, review_seq, clock, writes>>

CreateReview ==
    \E body \in ReviewBodies :
      LET r == create_review(reviews, review_seq, clock, body)
      IN  /\ Commit(r, MaxReviewWrites)
          /\ reviews' = r.rows
          /\ review_seq' = IF r.raised THEN review_seq ELSE review_seq + 1
          /\ last' = Answer("create_review", r.code)
          /\ UNCHANGED <<ui, sessions, tx, reservations, reservation_seq, clock>>

DeleteReview ==
    \E review_id \in ReviewIds :
      LET r == delete_review(reviews, review_id)
      IN  /\ Commit(r, MaxReviewWrites)
          /\ reviews' = r.rows
          /\ last' = Answer("delete_review", r.code)
          /\ UNCHANGED <<ui, sessions, tx, reservations, reservation_seq, review_seq, clock>>

Next ==
    \/ Tick
    \/ GetReservations
    \/ GetReservation
    \/ CreateReservation
    \/ UpdateReservation
    \/ DeleteReservation
    \/ GetReviews
    \/ GetReview
    \/ CreateReview
    \/ DeleteReview

Spec == Init /\ [][Next]_vars

\* the reservations router alone
NextReservations ==
    \/ Tick
    \/ GetReservations
    \/ GetReservation
    \/ CreateReservation
    \/ UpdateReservation
    \/ DeleteReservation

SpecReservations == Init /\ [][NextReservations]_vars

\* the Next.js API routes alone
RouteGetReservations ==
    \E searchParams \in RouteQueries :
      /\ reservations_route_GET(reservations, searchParams) # {}
      /\ last' = Answer("reservations_route_GET", 200)
      /\ UNCHANGED <<ui, sessions, tx, reservations, reservation_seq, reviews, review_seq, clock, writes>>

RoutePostReservation ==
    \E body \in {RouteReservation(r, n) : r \in {"r1", "r2"}, n \in {0, 2, 21}}
                \cup {Without(RouteReservation("r1", 2), "notes"),
                      With(RouteReservation("r1", 2), "customerName", NULL)} :
      LET r == reservations_route_POST(reservations, reservation_seq, clock, body)
      IN  /\ Commit(r, MaxReservationWrites)
          /\ reservations' = r.rows
          /\ reservation_seq' = IF r.raised THEN reservation_seq ELSE reservation_seq + 1
          /\ last' = Answer("reservations_route_POST", r.code)
          /\ UNCHANGED <<ui, sessions, tx, reviews, review_seq, clock>>

RouteGetReviews ==
    \E searchParams \in RouteQueries :
      /\ reviews_route_GET(reviews, searchParams) # {}
      /\ last' = Answer("reviews_route_GET", 200)
      /\ UNCHANGED <<ui, sessions, tx, reservations, reservation_seq, reviews, review_seq, clock, writes>>

RoutePostReview ==
    \E body \in {RouteReview("r1", n) : n \in {0, 1, 4, 5, 6}}
                \cup {RouteReview("r2", 5), Without(RouteReview("r1", 5), "title")} :
      LET r == reviews_route_POST(reviews, review_seq, clock, body)
      IN  /\ Commit(r, MaxReviewWrites)
          /\ reviews' = r.rows
          /\ review_seq' = IF r.raised THEN review_seq ELSE review_seq + 1
          /\ last' = Answer("reviews_route_POST", r.code)
          /\ UNCHANGED <<ui, sessions, tx, reservations, reservation_seq, clock>>

NextRoutes ==
    \/ Tick
    \/ RouteGetReservations
    \/ RoutePostReservation
    \/ RouteGetReviews
    \/ RoutePostReview

SpecRoutes == Init /\ [][NextRoutes]_vars

\* creating, reading and deleting single rows of both tables
NextDelete ==
    \/ GetReservation
    \/ CreateReservation
    \/ DeleteReservation
    \/ GetReview
    \/ CreateReview
    \/ DeleteReview

SpecDelete == Init /\ [][NextDelete]_vars

\* the reviews router alone
NextReviews ==
    \/ Tick
    \/ GetReviews
    \/ GetReview
    \/ CreateReview
    \/ DeleteReview

SpecReviews == Init /\ [][NextReviews]_vars

-----------------------------------------------------------------------------
(* A request to the reservations router inside get_db, statement by         *)
(* statement.  Here `reservations` is the content of the database as the    *)
(* open connection has written it; tx.before is the content when the        *)
(* connection was opened.                                                   *)

\* the statements of the handler up to and including its write, on the
\* content the connection sees
TxHandler(req) ==
    CASE req.op = "create_reservation" ->
           create_reservation(reservations, reservation_seq, clock, req.body)
      [] req.op = "update_reservation" ->
           update_reservation(reservations, clock, req.id, req.body)
      [] req.op = "delete_reservation" -> delete_reservation(reservations, req.id)
      [] req.op = "get_reservation" -> get_reservation(reservations, req.id)

\* conn = get_db_connection(); the with block is entered
TxOpen ==
    \E req \in
         {[op |-> "create_reservation", id |-> 0, body |-> b] :
             b \in {BaseReservation, FullReservation}}
         \cup {[op |-> "update_reservation", id |-> i, body |-> b] :
                 i \in ReservationIds,
                 b \in {Single("customer_name", Some("B")), Single("party_size", NULL),
                        EmptyBody}}
         \cup {[op |-> o, id |-> i, body |-> EmptyBody] :
                 o \in {"get_reservation", "delete_reservation"}, i \in ReservationIds} :
      /\ tx.pc = "idle"
      /\ req.op # "get_reservation" => writes < MaxReservationWrites
      /\ tx' = [TxIdle EXCEPT !.pc = "body", !.conn = get_db_connection, !.req = Some(req),
                              !.before = [rows |-> reservations, seq |-> reservation_seq],
                              !.work = [rows |-> reservations, seq |-> reservation_seq]]
      /\ UNCHANGED <<ui, sessions, reservations, reservation_seq, reviews, review_seq, clock, writes, last>>

\* the handler runs up to its write: it raises (HTTPException 404 or 400, or
\* the IntegrityError of the statement), or the rows are written
TxExecute ==
    /\ tx.pc = "body"
    /\ ~tx.ran
    /\ LET r == TxHandler(Val(tx.req))
           seq == IF Val(tx.req).op = "create_reservation"
                  THEN reservation_seq + 1 ELSE reservation_seq
       IN  IF r.raised
           THEN /\ tx' = [tx EXCEPT !.pc = "except", !.error = Some(r.code)]
                /\ UNCHANGED <<reservations, reservation_seq>>
           ELSE /\ reservations' = r.rows
                /\ reservation_seq' = seq
                /\ tx' = [tx EXCEPT !.ran = TRUE, !.code = r.code,
                                    !.work = [rows |-> r.rows, seq |-> seq]]
    /\ UNCHANGED <<ui, sessions, reviews, review_seq, clock, writes, last>>

\* an unexpected storage fault: a statement of the body, before or after the
\* write, or conn.commit() raises
TxFault ==
    /\ tx.pc \in {"body", "commit"}
    /\ tx' = [tx EXCEPT !.pc = "except", !.error = Some(500)]
    /\ UNCHANGED <<ui, sessions, reservations, reservation_seq, reviews, review_seq, clock, writes, last>>

\* the body of the with block returns
TxReturn ==
    /\ tx.pc = "body"
    /\ tx.ran
    /\ tx' = [tx EXCEPT !.pc = "commit"]
    /\ UNCHANGED <<ui, sessions, reservations, reservation_seq, reviews, review_seq, clock, writes, last>>

\* conn.commit()
TxCommit ==
    /\ tx.pc = "commit"
    /\ reservations' = commit(tx.before.rows, reservations)
    /\ reservation_seq' = commit(tx.before.seq, reservation_seq)
    /\ writes' = IF Val(tx.req).op = "get_reservation" THEN writes ELSE writes + 1
    /\ tx' = [tx EXCEPT !.pc = "finally", !.committed = TRUE]
    /\ UNCHANGED <<ui, sessions, reviews, review_seq, clock, last>>

\* except Exception: conn.rollback(); raise
TxRollback ==
    /\ tx.pc = "except"
    /\ reservations' = rollback(tx.before.rows, reservations)
    /\ reservation_seq' = rollback(tx.before.seq, reservation_seq)
    /\ tx' = [tx EXCEPT !.pc = "finally"]
    /\ UNCHANGED <<ui, sessions, reviews, review_seq, clock, writes, last>>

\* finally: conn.close(); the request is answered with the status of the
\* error that propagated, or with that of what the handler returned
TxClose ==
    /\ tx.pc = "finally"
    /\ tx' = [tx EXCEPT !.pc = "idle", !.conn = close(tx.conn)]
    /\ last' = Answer(Val(tx.req).op,
                      IF IsNull(tx.error) THEN tx.code ELSE Val(tx.error))
    /\ UNCHANGED <<ui, sessions, reservations, reservation_seq, reviews, review_seq, clock, writes>>

NextTx ==
    \/ Tick
    \/ TxOpen
    \/ TxExecute
    \/ TxFault
    \/ TxReturn
    \/ TxCommit
    \/ TxRollback
    \/ TxClose

SpecTx == Init /\ [][NextTx]_vars

\* a request that has entered get_db runs on: no statement of the handler
\* or of get_db waits for another request
SpecTxFair ==
    /\ SpecTx
    /\ WF_vars(TxExecute)
    /\ WF_vars(TxReturn)
    /\ WF_vars(TxCommit)
    /\ WF_vars(TxRollback)
    /\ WF_vars(TxClose)

-----------------------------------------------------------------------------
(* The restaurant detail page against the FastAPI backend: the handlers of   *)
(* its components, each up to its await and after it, the backend answering *)
(* a call, and fetch failing.  A handler runs together with the render and  *)
(* the effects its state changes cause.                                     *)

\* the page has loaded its restaurant and shows the reservation tab; the
\* backend holds no review yet, or two
InitPage ==
    /\ tx = TxIdle
    /\ sessions = NoSessions
    /\ reservations = EmptyTable
    /\ reservation_seq = 0
    /\ \/ reviews = EmptyTable /\ review_seq = 0
       \/ /\ reviews =
               LET one == create_review(EmptyTable, 0, 0, With(BaseReview, "rating", Some(5)))
                   two == create_review(one.rows, 1, 0, With(BaseReview, "rating", Some(2)))
               IN  two.rows
          /\ review_seq = 2
    /\ clock = 0
    /\ writes = 0
    /\ last = Answer("none", 0)
    /\ page = RestaurantDetailPage
    /\ reservationForm = ReservationForm(TRUE, 1)
    /\ reviewForm = ReviewForm(FALSE, 1)
    /\ reviewsList = ReviewsList(FALSE, 1)
    /\ requests = <<>>

Budget(n) ==
    Len(requests)
    + Cardinality({i \in DOMAIN requests :
                     requests[i].call = "createReview" /\ requests[i].pc # "settled"})
    + n <= MaxRequests

\* a click on the other tab: the components of the tab shown unmount, those
\* of the other tab mount with their initial state, and the effect of a
\* mounted ReviewsList runs
SetActiveTab ==
    \E tab \in {"reservation", "reviews"} :
      LET n == page.mounts + 1
          e == useEffect(ReviewsList(tab = "reviews", n), TRUE, <<>>, <<>>)
      IN  /\ tab # page.activeTab
          /\ page.mounts < MaxMounts
          /\ Budget(Len(e.calls))
          /\ page' = [page EXCEPT !.activeTab = tab, !.mounts = n]
          /\ reservationForm' = ReservationForm(tab = "reservation", n)
          /\ reviewForm' = ReviewForm(tab = "reviews", n)
          /\ reviewsList' = e.list
          /\ requests' = requests \o e.calls
          /\ UNCHANGED <<reservations, reservation_seq, reviews, review_seq, clock, writes, last, tx, sessions>>

ReservationFormChange ==
    \E input \in {<<"customer_name", "A">>, <<"customer_email", "a@x.com">>,
                 <<"party_size", "20">>, <<"reservation_date", "2024-12-25">>,
                 <<"reservation_time", "19:00">>} :
      /\ reservationForm.mounted
      /\ ~reservationForm.success
      /\ reservationForm' = ReservationForm_handleChange(reservationForm, input[1], input[2])
      /\ reservationForm' # reservationForm
      /\ UNCHANGED <<reservations, reservation_seq, reviews, review_seq, clock, writes, last, tx, sessions,
                     page, reviewForm, reviewsList, requests>>

ReservationFormSubmit ==
    LET h == ReservationForm_handleSubmit(reservationForm)
    IN  /\ reservationForm.mounted
        /\ ReservationForm_onSubmit(reservationForm)
        /\ Budget(Len(h.calls))
        /\ reservationForm' = h.form
        /\ requests' = requests \o h.calls
        /\ UNCHANGED <<reservations, reservation_seq, reviews, review_seq, clock, writes, last, tx, sessions,
                       page, reviewForm, reviewsList>>

\* Make Another Reservation: setSuccess(false)
ReservationFormAgain ==
    /\ reservationForm.mounted
    /\ reservationForm.success
    /\ reservationForm' = [reservationForm EXCEPT !.success = FALSE]
    /\ UNCHANGED <<reservations, reservation_seq, reviews, review_seq, clock, writes, last, tx, sessions,
                   page, reviewForm, reviewsList, requests>>

\* createReservation settles: handleSubmit resumes, in the component that
\* made the call if it is still mounted
ReservationFormSettled ==
    \E i \in DOMAIN requests :
      /\ requests[i].call = "createReservation"
      /\ requests[i].pc = "answered"
      /\ reservationForm' =
            IF reservationForm.mounted /\ reservationForm.instance = requests[i].instance
            THEN ReservationForm_settled(reservationForm, requests[i].result)
            ELSE reservationForm
      /\ requests' = [requests EXCEPT ![i].pc = "settled"]
      /\ UNCHANGED <<reservations, reservation_seq, reviews, review_seq, clock, writes, last, tx, sessions,
                     page, reviewForm, reviewsList>>

ReviewFormChange ==
    \E input \in {<<"reviewer_name", "A">>, <<"reviewer_email", "a@x.com">>} :
      /\ reviewForm.mounted
      /\ reviewForm' = ReviewForm_handleChange(reviewForm, input[1], input[2])
      /\ reviewForm' # reviewForm
      /\ UNCHANGED <<reservations, reservation_seq, reviews, review_seq, clock, writes, last, tx, sessions,
                     page, reservationForm, reviewsList, requests>>

ReviewFormRatingClick ==
    \E rating \in {1, 5} :
      /\ reviewForm.mounted
      /\ reviewForm' = ReviewForm_handleRatingClick(reviewForm, rating)
      /\ reviewForm' # reviewForm
      /\ UNCHANGED <<reservations, reservation_seq, reviews, review_seq, clock, writes, last, tx, sessions,
                     page, reservationForm, reviewsList, requests>>

ReviewFormSubmit ==
    LET h == ReviewForm_handleSubmit(reviewForm)
    IN  /\ reviewForm.mounted
        /\ ReviewForm_onSubmit(reviewForm)
        /\ Budget(2 * Len(h.calls))
        /\ reviewForm' = h.form
        /\ requests' = requests \o h.calls
        /\ UNCHANGED <<reservations, reservation_seq, reviews, review_seq, clock, writes, last, tx, sessions,
                       page, reservationForm, reviewsList>>

\* createReview settles: handleSubmit resumes; onSuccess changes the state of
\* the page, and the effect of the mounted ReviewsList runs on the new prop
ReviewFormSettled ==
    \E i \in DOMAIN requests :
      LET result == requests[i].result
          n == IF result.rejected THEN page.reviewRefreshTrigger
               ELSE onSuccess(page.reviewRefreshTrigger)
          e == useEffect(reviewsList, FALSE,
                         ReviewsList_deps(reviewsList, page.reviewRefreshTrigger),
                         ReviewsList_deps(reviewsList, n))
      IN  /\ requests[i].call = "createReview"
          /\ requests[i].pc = "answered"
          /\ reviewForm' =
                IF reviewForm.mounted /\ reviewForm.instance = requests[i].instance
                THEN ReviewForm_settled(reviewForm, result)
                ELSE reviewForm
          /\ page' = [page EXCEPT !.reviewRefreshTrigger = n]
          /\ reviewsList' = e.list
          /\ requests' = [requests EXCEPT ![i].pc = "settled"] \o e.calls
          /\ UNCHANGED <<reservations, reservation_seq, reviews, review_seq, clock, writes, last, tx, sessions,
                         reservationForm>>

\* the user picks another option of the sort control
ReviewsListSort ==
    \E value \in {"created_at-desc", "created_at-asc", "rating-desc", "rating-asc"} :
      LET list == ReviewsList_onChange(reviewsList, value)
          e == useEffect(list, FALSE,
                         ReviewsList_deps(reviewsList, page.reviewRefreshTrigger),
                         ReviewsList_deps(list, page.reviewRefreshTrigger))
      IN  /\ reviewsList.mounted
          /\ ReviewsList_select(reviewsList)
          /\ list # reviewsList
          /\ Budget(Len(e.calls))
          /\ reviewsList' = e.list
          /\ requests' = requests \o e.calls
          /\ UNCHANGED <<reservations, reservation_seq, reviews, review_seq, clock, writes, last, tx, sessions,
                         page, reservationForm, reviewForm>>

\* getReviews settles: fetchReviews resumes
ReviewsListSettled ==
    \E i \in DOMAIN requests :
      /\ requests[i].call = "getReviews"
      /\ requests[i].pc = "answered"
      /\ reviewsList' =
            IF reviewsList.mounted /\ reviewsList.instance = requests[i].instance
            THEN fetchReviews_settled(reviewsList, requests[i].result)
            ELSE reviewsList
      /\ requests' = [requests EXCEPT ![i].pc = "settled"]
      /\ UNCHANGED <<reservations, reservation_seq, reviews, review_seq, clock, writes, last, tx, sessions,
                     page, reservationForm, reviewForm>>

\* the backend handles a call that was sent and its response arrives
Respond(call) ==
    \E i \in {j \in DOMAIN requests : requests[j].pc = "sent" /\ requests[j].call = call} :
      \E b \in Backend(requests[i]) :
        /\ reservations' = b.reservations
        /\ reservation_seq' = b.reservation_seq
        /\ reviews' = b.reviews
        /\ review_seq' = b.review_seq
        /\ requests' = [requests EXCEPT ![i].pc = "answered", ![i].result = b.result]
        /\ UNCHANGED <<clock, writes, last, tx, sessions, page, reservationForm, reviewForm, reviewsList>>

RespondCreateReservation == Respond("createReservation")
RespondCreateReview == Respond("createReview")
RespondGetReviews == Respond("getReviews")

\* fetch rejects: the call never reaches the backend
FetchFails ==
    \E i \in DOMAIN requests :
      /\ requests[i].pc = "sent"
      /\ requests' = [requests EXCEPT ![i].pc = "answered", ![i].result = FailedToFetch]
      /\ UNCHANGED <<reservations, reservation_seq, reviews, review_seq, clock, writes, last, tx, sessions,
                     page, reservationForm, reviewForm, reviewsList>>

NextPage ==
    \/ SetActiveTab
    \/ ReservationFormChange
    \/ ReservationFormSubmit
    \/ ReservationFormAgain
    \/ ReservationFormSettled
    \/ ReviewFormChange
    \/ ReviewFormRatingClick
    \/ ReviewFormSubmit
    \/ ReviewFormSettled
    \/ ReviewsListSort
    \/ ReviewsListSettled
    \/ RespondCreateReservation
    \/ RespondCreateReview
    \/ RespondGetReviews
    \/ FetchFails

SpecPage == InitPage /\ [][NextPage]_vars

\* a create call that was sent is answered, and a handler whose call has
\* settled resumes
SpecPageFair ==
    /\ SpecPage
    /\ WF_vars(RespondCreateReservation)
    /\ WF_vars(RespondCreateReview)
    /\ WF_vars(ReservationFormSettled)
    /\ WF_vars(ReviewFormSettled)

-----------------------------------------------------------------------------
(* A PATCH and a DELETE of one reservation, each on a connection of its own, *)
(* statement by statement.  Here `reservations` is the committed content of  *)
(* the database file.  sqlite3 opens a transaction only before an UPDATE or  *)
(* DELETE statement (a SELECT runs outside one), so sessions[c].written is   *)
(* the content connection c has written and not yet committed, and the       *)
(* connection that has written holds the write lock of the file.  A          *)
(* statement that needs the lock waits for it (sqlite3.connect waits 5       *)
(* seconds by default); the holder is taken to finish within that time.      *)

RaceTables ==
    {[i \in S |-> ReservationInsert(i, 0, ReservationCreate(BaseReservation))] :
        S \in {{}, {1}, {2}, {1, 2}}}

\* what a statement of connection c reads: the content it has written
\* itself, else the committed content
View(c) ==
    IF IsNull(sessions[c].written) THEN reservations ELSE Val(sessions[c].written)

\* the write lock is free for c: the other connection has no open write
Writable(c) == \A o \in DOMAIN sessions \ {c} : IsNull(sessions[o].written)

InitRace ==
    /\ tx = TxIdle
    /\ sessions = NoSessions
    /\ reservations \in RaceTables
    /\ reservation_seq = 2
    /\ reviews = EmptyTable
    /\ review_seq = 0
    /\ clock = 0
    /\ writes = 0
    /\ last = Answer("none", 0)
    /\ page = RestaurantDetailPage
    /\ reservationForm = ReservationForm(TRUE, 1)
    /\ reviewForm = ReviewForm(FALSE, 1)
    /\ reviewsList = ReviewsList(FALSE, 1)
    /\ requests = <<>>

\* the framework dispatches the request: conn = get_db_connection() and the
\* with block is entered.  Both requests address the same reservation id.
RaceOpen ==
    \E c \in DOMAIN sessions, id \in {1, 2},
       body \in {Single("customer_name", Some("B")), Single("party_size", Some(4))} :
      /\ sessions[c].pc = "idle"
      /\ \A o \in DOMAIN sessions \ {c} :
            sessions[o].pc # "idle" => id = Val(sessions[o].req).id
      /\ sessions' = [sessions EXCEPT ![c] =
            [NoSession EXCEPT !.pc = "select", !.conn = get_db_connection,
                              !.req = Some([id |-> id,
                                            body |-> IF c = "PATCH" THEN body
                                                     ELSE EmptyBody])]]
      /\ UNCHANGED <<ui, tx, reservations, reservation_seq, reviews, review_seq, clock, writes, last>>

\* update_reservation: SELECT ... WHERE id = ?; 404 when no row is fetched,
\* 400 when the patch sets no field
PatchSelect ==
    /\ sessions["PATCH"].pc = "select"
    /\ LET s == sessions["PATCH"]
           req == Val(s.req)
       IN  sessions' = [sessions EXCEPT !["PATCH"] =
             IF req.id \notin DOMAIN View("PATCH")
             THEN [s EXCEPT !.pc = "except", !.error = Some(404)]
             ELSE IF NoFields(ReservationUpdateDump(req.body))
             THEN [s EXCEPT !.pc = "except", !.error = Some(400)]
             ELSE [s EXCEPT !.pc = "update"]]
    /\ UNCHANGED <<ui, tx, reservations, reservation_seq, reviews, review_seq, clock, writes, last>>

\* update_reservation: UPDATE reservations SET ... WHERE id = ?, which opens
\* the connection's transaction; a WHERE that matches no row updates nothing
PatchUpdate ==
    /\ sessions["PATCH"].pc = "update"
    /\ Writable("PATCH")
    /\ LET s == sessions["PATCH"]
           req == Val(s.req)
           rows == View("PATCH")
           update_data == ReservationUpdateDump(req.body)
       IN  sessions' = [sessions EXCEPT !["PATCH"] =
             IF \E col \in DOMAIN update_data :
                   col \in ReservationNotNull /\ IsNull(update_data[col])
             THEN [s EXCEPT !.pc = "except", !.error = Some(500)]
             ELSE [s EXCEPT !.pc = "reselect",
                            !.written = Some(
                               [i \in DOMAIN rows |->
                                  IF i = req.id
                                  THEN ReservationSet(rows[i], clock, update_data)
                                  ELSE rows[i]])]]
    /\ UNCHANGED <<ui, tx, reservations, reservation_seq, reviews, review_seq, clock, writes, last>>

\* update_reservation: SELECT ... WHERE id = ?; return dict(cursor.fetchone()),
\* and dict(None) raises TypeError
PatchReselect ==
    /\ sessions["PATCH"].pc = "reselect"
    /\ LET s == sessions["PATCH"]
           req == Val(s.req)
           rows == View("PATCH")
       IN  sessions' = [sessions EXCEPT !["PATCH"] =
             IF req.id \notin DOMAIN rows
             THEN [s EXCEPT !.pc = "except", !.error = Some(500)]
             ELSE [s EXCEPT !.pc = "commit", !.code = 200,
                            !.body = Some(rows[req.id])]]
    /\ UNCHANGED <<ui, tx, reservations, reservation_seq, reviews, review_seq, clock, writes, last>>

\* delete_reservation: SELECT ... WHERE id = ?; 404 when no row is fetched
DeleteSelect ==
    /\ sessions["DELETE"].pc = "select"
    /\ LET s == sessions["DELETE"]
       IN  sessions' = [sessions EXCEPT !["DELETE"] =
             IF Val(s.req).id \notin DOMAIN View("DELETE")
             THEN [s EXCEPT !.pc = "except", !.error = Some(404)]
             ELSE [s EXCEPT !.pc = "delete"]]
    /\ UNCHANGED <<ui, tx, reservations, reservation_seq, reviews, review_seq, clock, writes, last>>

\* delete_reservation: DELETE FROM reservations WHERE id = ?, which opens
\* the connection's transaction
DeleteDelete ==
    /\ sessions["DELETE"].pc = "delete"
    /\ Writable("DELETE")
    /\ LET s == sessions["DELETE"]
           rows == View("DELETE")
       IN  sessions' = [sessions EXCEPT !["DELETE"] =
             [s EXCEPT !.pc = "commit", !.code = 204,
                       !.written = Some([i \in DOMAIN rows \ {Val(s.req).id} |-> rows[i]])]]
    /\ UNCHANGED <<ui, tx, reservations, reservation_seq, reviews, review_seq, clock, writes, last>>

\* get_db: conn.commit() after the body has returned
RaceCommit ==
    \E c \in DOMAIN sessions :
      /\ sessions[c].pc = "commit"
      /\ reservations' = commit(reservations, View(c))
      /\ sessions' = [sessions EXCEPT ![c].pc = "finally", ![c].written = NULL]
      /\ UNCHANGED <<ui, tx, reservation_seq, reviews, review_seq, clock, writes, last>>

\* get_db: except Exception: conn.rollback(); raise
RaceRollback ==
    \E c \in DOMAIN sessions :
      /\ sessions[c].pc = "except"
      /\ reservations' = rollback(reservations, View(c))
      /\ sessions' = [sessions EXCEPT ![c].pc = "finally", ![c].written = NULL]
      /\ UNCHANGED <<ui, tx, reservation_seq, reviews, review_seq, clock, writes, last>>

\* get_db: finally: conn.close(); the framework answers, an exception that
\* is no HTTPException and a body that fails the response model with 500
RaceClose ==
    \E c \in DOMAIN sessions :
      /\ sessions[c].pc = "finally"
      /\ LET s == sessions[c]
             code == IF ~IsNull(s.error) THEN Val(s.error)
                     ELSE IF c = "PATCH" /\ ~ReservationResponse(Val(s.body)) THEN 500
                     ELSE s.code
         IN  /\ sessions' = [sessions EXCEPT ![c] =
                    [s EXCEPT !.pc = "done", !.conn = close(s.conn), !.code = code,
                              !.body = IF code = 200 THEN s.body ELSE NULL]]
             /\ last' = Answer(IF c = "PATCH" THEN "update_reservation"
                               ELSE "delete_reservation", code)
      /\ UNCHANGED <<ui, tx, reservations, reservation_seq, reviews, review_seq, clock, writes>>

NextRace ==
    \/ RaceOpen
    \/ PatchSelect
    \/ PatchUpdate
    \/ PatchReselect
    \/ DeleteSelect
    \/ DeleteDelete
    \/ RaceCommit
    \/ RaceRollback
    \/ RaceClose

SpecRace == InitRace /\ [][NextRace]_vars

-----------------------------------------------------------------------------
(* Properties of the reservations router *)

\* C1: for every valid ReservationCreate input, create_reservation followed
\* by get_reservation on the returned id yields a row whose input fields
\* equal the (validated) input, with a storage-generated integer id not used
\* by any stored row, status 'pending', and created_at equal to updated_at.
C1_CreateThenGet ==
    \A body \in ReservationBodies :
      ReservationCreateValid(body) =>
        LET input == ReservationCreate(body)
            c == create_reservation(reservations, reservation_seq, clock, body)
        IN  /\ c.code = 201
            /\ ~IsNull(c.body)
            /\ LET id == Val(c.body).id
                   g == get_reservation(c.rows, id)
               IN  /\ id \in Nat
                   /\ id \notin DOMAIN reservations
                   /\ g.code = 200
                   /\ ~IsNull(g.body)
                   /\ Val(g.body).id = id
                   /\ \A f \in DOMAIN input : Val(g.body)[f] = input[f]
                   /\ Val(g.body).status = Some("pending")
                   /\ Val(g.body).created_at = Val(g.body).updated_at

\* a reservation with its optional fields set has just been created and is stored
C1_Witness ==
    /\ last = Answer("create_reservation", 201)
    /\ reservation_seq \in DOMAIN reservations
    /\ get_reservation(reservations, reservation_seq).code = 200
    /\ reservations[reservation_seq].notes = Some("n")

\* create_reservation rejects every party size outside 1..20 with 422 and
\* leaves the stored reservations unchanged.
C2_FastAPI ==
    \A n \in {-1, 0, 21, 22}, base \in {BaseReservation, FullReservation} :
      LET c == create_reservation(reservations, reservation_seq, clock,
                                  With(base, "party_size", Some(n)))
      IN  /\ c.code = 422
          /\ c.raised
          /\ c.rows = reservations

\* the POST route rejects every party size outside 1..20 with a client
\* error and leaves the stored reservations unchanged.
C2_Routes ==
    \A n \in {-1, 0, 21, 22}, r \in {"r1", "r2"} :
      LET c == reservations_route_POST(reservations, reservation_seq, clock,
                                       RouteReservation(r, n))
      IN  /\ c.code \in 400..499
          /\ c.raised
          /\ c.rows = reservations

\* C2: for every party size outside 1..20, creating a reservation, through
\* create_reservation or through the POST route, fails with a validation
\* error and the stored reservations are unchanged.
C2_PartySizeRejected == C2_FastAPI /\ C2_Routes

\* create_reservation has just rejected a request while reservations are stored
C2_FastAPIWitness ==
    /\ last = Answer("create_reservation", 422)
    /\ reservations # EmptyTable

\* the POST route has just answered 201 and a party of 21 is stored
C2_Witness ==
    /\ last = Answer("reservations_route_POST", 201)
    /\ \E i \in DOMAIN reservations : reservations[i].party_size = 21

\* C3: an update whose patch sets exactly one field changes that field and
\* updated_at of the addressed reservation and nothing else: every other
\* field of the row and every other stored reservation is as before.  A
\* patch that sets one field to a valid non-null value is accepted.
C3_SingleFieldFrame ==
    \A id \in DOMAIN reservations, body \in ReservationPatches :
      (Cardinality(DOMAIN body) = 1 /\ DOMAIN body \subseteq ReservationUpdateFields) =>
        LET f == CHOOSE k \in DOMAIN body : TRUE
            u == update_reservation(reservations, clock, id, body)
            new == IF f \in {"customer_phone", "status", "notes"}
                   THEN body[f] ELSE Val(body[f])
            set == [reservations EXCEPT ![id] =
                       [[@ EXCEPT ![f] = new] EXCEPT !.updated_at = clock]]
        IN  IF IsNull(body[f]) /\ f \in ReservationNotNull
            THEN u.code # 200 /\ u.rows = reservations
            ELSE /\ (~IsNull(body[f]) /\ ReservationUpdateValid(body)) =>
                      /\ u.rows = set
                      /\ ReservationResponse(set[id]) => u.code = 200
                 /\ u.code = 200 => u.rows = set
                 /\ u.rows \in {set, reservations}

\* the one update of the behaviour set the customer name, a second later
C3_Witness ==
    /\ last = Answer("update_reservation", 200)
    /\ \E id \in DOMAIN reservations :
         /\ reservations[id].customer_name = "B"
         /\ reservations[id].updated_at > reservations[id].created_at

\* C4: update_reservation on an existing id with an empty patch fails with
\* 400 'No fields to update' and leaves the stored rows, updated_at
\* included, unchanged.
C4_EmptyPatchRejected ==
    \A id \in DOMAIN reservations :
      LET u == update_reservation(reservations, clock, id, EmptyBody)
      IN  /\ u.code = 400
          /\ u.detail = "No fields to update"
          /\ u.rows = reservations

\* an update was answered 400 at a time later than a stored row's updated_at
C4_Witness ==
    /\ last = Answer("update_reservation", 400)
    /\ \E id \in DOMAIN reservations : reservations[id].updated_at < clock

\* C5: update_reservation fails with 404 when the id is not stored (and the
\* patch passes validation), and with a validation error (422) when a field
\* present in the patch violates its constraint (party size outside 1..20,
\* status outside pending/confirmed/cancelled); in both cases, and whenever
\* the id is not stored, no stored reservation is changed.
C5_UpdateErrors ==
    \A id \in ReservationIds \cup {reservation_seq + 1}, body \in ReservationPatches :
      LET u == update_reservation(reservations, clock, id, body)
          bad == \/ /\ Present(body, "party_size")
                    /\ Val(body["party_size"]) \notin 1..20
                 \/ /\ Present(body, "status")
                    /\ Val(body["status"]) \notin {"pending", "confirmed", "cancelled"}
      IN  /\ bad => u.code = 422 /\ u.rows = reservations
          /\ id \notin DOMAIN reservations =>
               /\ u.code \in {404, 422}
               /\ u.rows = reservations
               /\ ReservationUpdateValid(body) <=> u.code = 404

\* an update of an id that is not stored was answered 404 while rows are stored
C5_Witness ==
    /\ last = Answer("update_reservation", 404)
    /\ reservations # EmptyTable

\* C6: for reservations and for reviews, after delete(id) succeeds get(id)
\* yields 404; delete of an id that is not stored yields 404 and leaves
\* every stored row unchanged. The client's deleteReservation resolves in the
\* first case and rejects with 'Reservation not found' in the second.
C6_Delete ==
    /\ \A id \in ReservationIds :
         LET d == delete_reservation(reservations, id)
         IN  IF id \in DOMAIN reservations
             THEN d.code = 204 /\ get_reservation(d.rows, id).code = 404
             ELSE d.code = 404 /\ d.rows = reservations
    /\ \A id \in ReviewIds :
         LET d == delete_review(reviews, id)
         IN  IF id \in DOMAIN reviews
             THEN d.code = 204 /\ get_review(d.rows, id).code = 404
             ELSE d.code = 404 /\ d.rows = reviews
    /\ \A id \in ReservationIds :
         LET d == deleteReservation(reservations, id)
             NotFound == <<"Reservation not found">>
         IN  IF id \in DOMAIN reservations
             THEN /\ ~d.result.rejected
                  /\ getReservation(d.rows, id).result.rejected
                  /\ getReservation(d.rows, id).result.message = NotFound
             ELSE /\ d.result.rejected
                  /\ d.result.message = NotFound
                  /\ d.rows = reservations

\* the last review created has just been deleted, a reservation is stored
C6_Witness ==
    /\ last = Answer("delete_review", 204)
    /\ review_seq > 0
    /\ get_review(reviews, review_seq).code = 404
    /\ reservations # EmptyTable

-----------------------------------------------------------------------------
(* Properties of the reviews router *)

\* the stats of get_reviews for a restaurant are computed from the rows
\* stored at that moment: total_reviews is the number n of stored reviews of
\* the restaurant, avg_rating is their mean rounded to two decimals (here in
\* hundredths: the closest integer to 100 * sum / n), and null when n = 0.
C7_FastAPI ==
    \A rid \in {"r1", "r2"}, min_rating \in {NULL, Some(4)} :
      LET resps == get_reviews(reviews, Some(rid), min_rating, NULL, NULL)
          of(k) == Cardinality({i \in DOMAIN reviews :
                      reviews[i].restaurant_id = rid /\ reviews[i].rating = k})
          n == of(1) + of(2) + of(3) + of(4) + of(5)
          sum == of(1) + 2 * of(2) + 3 * of(3) + 4 * of(4) + 5 * of(5)
      IN  /\ resps # {}
          /\ \A resp \in resps :
               /\ resp.stats.total_reviews = n
               /\ n = 0 => IsNull(resp.stats.avg_rating)
               /\ n > 0 =>
                    /\ ~IsNull(resp.stats.avg_rating)
                    /\ LET d == Val(resp.stats.avg_rating) * n - 100 * sum
                       IN  2 * d <= n /\ -2 * d <= n

\* the stats of the GET route: totalReviews is n, avgRating is null when
\* n = 0 and otherwise a number of at most two decimals (the quotient
\* num / den is a whole number of hundredths) within 0.005 of the mean.
C7_Routes ==
    \A rid \in {"r1", "r2"} :
      LET resps == reviews_route_GET(reviews, Single("restaurantId", Some(rid)))
          hit == {i \in DOMAIN reviews : reviews[i].restaurant_id = rid}
          n == Cardinality(hit)
          sum == SumRating(reviews, hit)
      IN  /\ resps # {}
          /\ \A resp \in resps :
               /\ resp.stats.totalReviews = n
               /\ n = 0 => IsNull(resp.stats.avgRating)
               /\ n > 0 =>
                    /\ ~IsNull(resp.stats.avgRating)
                    /\ LET avg == Val(resp.stats.avgRating)
                           d == avg.num * n - sum * avg.den
                       IN  /\ (100 * avg.num) % avg.den = 0
                           /\ 200 * d <= n * avg.den
                           /\ -200 * d <= n * avg.den

\* C7: the stats returned for a restaurant, by get_reviews or by the GET
\* route, are computed from the rows stored at that moment: the count is
\* the number n of stored reviews of the restaurant, the average is their
\* mean rounded to two decimals, and null when n = 0.
C7_StatsLive == C7_FastAPI /\ C7_Routes

\* get_reviews has just answered with three reviews of r1 stored whose mean
\* is no multiple of 0.01
C7_FastAPIWitness ==
    /\ last = Answer("get_reviews", 200)
    /\ Cardinality({i \in DOMAIN reviews : reviews[i].restaurant_id = "r1"}) = 3
    /\ (100 * SumRating(reviews, DOMAIN reviews)) % 3 # 0

\* the GET route has just answered with three reviews of r1 stored whose
\* mean is no multiple of 0.01
C7_Witness ==
    /\ last = Answer("reviews_route_GET", 200)
    /\ Cardinality({i \in DOMAIN reviews : reviews[i].restaurant_id = "r1"}) = 3
    /\ (100 * SumRating(reviews, DOMAIN reviews)) % 3 # 0

\* get_reservations with filters restaurant_id and/or status selects
\* exactly the stored reservations that satisfy every filter given (a
\* non-empty value); a filter not given imposes no constraint, so a list
\* call with no filter selects every stored reservation.  It answers with
\* them unless one of them has no status, which the response model refuses.
C8_FastAPI ==
    \A rf \in ReservationRestaurantFilters \cup {Some("r2")},
       sf \in ReservationStatusFilters \cup {Some("confirmed")} :
      LET given(o) == o # NULL /\ o # Some("")
          want == {reservations[i] : i \in {j \in DOMAIN reservations :
                      /\ given(rf) => reservations[j].restaurant_id = Val(rf)
                      /\ given(sf) => reservations[j].status = sf}}
          resps == get_reservations(reservations, rf, sf)
      IN  /\ resps # {}
          /\ \A r \in resps :
               /\ r.code = 200 <=> \A row \in want : ReservationResponse(row)
               /\ r.code = 200 =>
                    LET l == Val(r.body)
                    IN  /\ {l[k] : k \in 1..Len(l)} = want
                        /\ Len(l) = Cardinality(want)

\* the GET route with filters restaurantId and/or status returns exactly
\* the stored reservations that satisfy every filter of the query.
C8_Routes ==
    \A searchParams \in RouteQueries :
      LET want == {reservations[i] : i \in {j \in DOMAIN reservations :
                      /\ Has(searchParams, "restaurantId") =>
                            reservations[j].restaurant_id = Val(searchParams["restaurantId"])
                      /\ Has(searchParams, "status") =>
                            reservations[j].status = searchParams["status"]}}
          lists == reservations_route_GET(reservations, searchParams)
      IN  /\ lists # {}
          /\ \A l \in lists :
               /\ {l[k] : k \in 1..Len(l)} = want
               /\ Len(l) = Cardinality(want)

\* C8: listing reservations with filters restaurantId and/or status, through
\* get_reservations or through the GET route, returns exactly the stored
\* reservations that satisfy every filter that is present; a filter that is
\* absent imposes no constraint, so a list call with no filter returns every
\* stored reservation.
C8_ListFilters == C8_FastAPI /\ C8_Routes

\* get_reservations has just listed with reservations of two restaurants stored
C8_FastAPIWitness ==
    /\ last = Answer("get_reservations", 200)
    /\ \E i, j \in DOMAIN reservations :
         reservations[i].restaurant_id # reservations[j].restaurant_id

\* the GET route has just listed with reservations of two restaurants stored
C8_Witness ==
    /\ last = Answer("reservations_route_GET", 200)
    /\ \E i, j \in DOMAIN reservations :
         reservations[i].restaurant_id # reservations[j].restaurant_id

\* C9: the reservation list is sorted by (reservation_date ascending,
\* reservation_time ascending) whatever the order of insertion or update.
C9_ListSorted ==
    \A rf \in ReservationRestaurantFilters, sf \in ReservationStatusFilters :
      \A r \in get_reservations(reservations, rf, sf) :
        r.code = 200 =>
        \A i, j \in 1..Len(Val(r.body)) :
          LET l == Val(r.body) IN
          i < j =>
            \/ TextRank(l[i].reservation_date) < TextRank(l[j].reservation_date)
            \/ /\ l[i].reservation_date = l[j].reservation_date
               /\ TextRank(l[i].reservation_time) <= TextRank(l[j].reservation_time)

\* two reservations of one date are stored, the later time inserted first
C9_Witness ==
    /\ last = Answer("get_reservations", 200)
    /\ \E i, j \in DOMAIN reservations :
         /\ i < j
         /\ reservations[i].reservation_date = reservations[j].reservation_date
         /\ TextRank(reservations[i].reservation_time)
              > TextRank(reservations[j].reservation_time)

\* C10: the review list, requested through getReviews, is sorted by
\* created_at descending when no sort is given, and for sort_by in
\* {created_at, rating} and order in {asc, desc} by that column in that
\* direction.
C10_ReviewsSorted ==
    \A sortBy \in {NULL, Some("created_at"), Some("rating")},
       order \in {NULL, Some("asc"), Some("desc")} :
      LET q == getReviews(NULL, [sortBy |-> sortBy, order |-> order])
          col == IF sortBy = NULL THEN "created_at" ELSE Val(sortBy)
          resps == get_reviews(reviews, q.restaurant_id, q.min_rating, q.sort_by, q.order)
      IN  /\ resps # {}
          /\ \A resp \in resps :
               /\ Len(resp.reviews) = Cardinality(DOMAIN reviews)
               /\ \A i, j \in 1..Len(resp.reviews) :
                    i < j =>
                      IF order = Some("asc")
                      THEN resp.reviews[i][col] <= resp.reviews[j][col]
                      ELSE resp.reviews[i][col] >= resp.reviews[j][col]

\* reviews are stored whose rating order is the reverse of their creation order
C10_Witness ==
    /\ last = Answer("get_reviews", 200)
    /\ \E i, j \in DOMAIN reviews :
         /\ reviews[i].created_at < reviews[j].created_at
         /\ reviews[i].rating < reviews[j].rating


\* C11: the default review ordering is deterministic for reviews with equal
\* created_at: two list calls over the same stored rows return the same
\* sequence, in which reviews of equal created_at come by id descending.
C11_DefaultOrderDeterministic ==
    \A rf \in {NULL, Some("r1")} :
      LET q == getReviews(rf, EmptyBody)
          resps == get_reviews(reviews, q.restaurant_id, q.min_rating, q.sort_by, q.order)
      IN  /\ \A a, b \in resps : a.reviews = b.reviews
          /\ \A a \in resps : \A i, j \in 1..Len(a.reviews) :
               (i < j /\ a.reviews[i].created_at = a.reviews[j].created_at) =>
                 a.reviews[i].id > a.reviews[j].id

\* the reviews have just been listed with two of equal created_at stored
C11_Witness ==
    /\ last = Answer("get_reviews", 200)
    /\ \E i, j \in DOMAIN reviews :
         i # j /\ reviews[i].created_at = reviews[j].created_at


-----------------------------------------------------------------------------
(* Invariants of the stored rows *)

\* C12: after any sequence of reservation create, update, cancel and delete
\* requests, accepted or rejected, every stored reservation has a party
\* size in 1..20.
C12_PartySizeInRange ==
    \A i \in DOMAIN reservations :
      reservations[i].party_size >= 1 /\ reservations[i].party_size <= 20

\* a patch has just been refused with the table holding a party size an
\* earlier patch wrote
C12_Witness ==
    /\ last.op = "update_reservation"
    /\ last.code \in {422, 500}
    /\ \E i \in DOMAIN reservations : reservations[i].party_size = 4

\* C13: after any sequence of reservation create, update, cancel and delete
\* requests, patches with an explicit null included, every stored
\* reservation has a status among 'pending', 'confirmed', 'cancelled'.
C13_StatusInEnumeration ==
    \A i \in DOMAIN reservations :
      /\ ~IsNull(reservations[i].status)
      /\ Val(reservations[i].status) \in ReservationStatus

\* an update has just been committed and answered 500, leaving a row
\* without status
C13_Witness ==
    /\ last = Answer("update_reservation", 500)
    /\ \E i \in DOMAIN reservations : IsNull(reservations[i].status)


\* C14: with a storage clock that never goes back, every stored reservation
\* has updated_at >= created_at in every reachable state, and the created_at
\* of a stored reservation never changes after its insert.
C14_Timestamps ==
    /\ [](\A i \in DOMAIN reservations :
            reservations[i].updated_at >= reservations[i].created_at)
    /\ [][\A i \in DOMAIN reservations \cap DOMAIN reservations' :
            reservations'[i].created_at = reservations[i].created_at]_vars

\* a reservation was cancelled a second after its insert
C14_Witness ==
    /\ last = Answer("update_reservation", 200)
    /\ \E i \in DOMAIN reservations :
         /\ reservations[i].status = Some("cancelled")
         /\ reservations[i].created_at = 0
         /\ reservations[i].updated_at = 1

\* C15: every stored review has a rating in 1..5 in every reachable state;
\* create_review with a rating outside 1..5 fails with a validation error
\* (422) and stores no row.
C15_RatingInRange ==
    /\ \A i \in DOMAIN reviews : reviews[i].rating >= 1 /\ reviews[i].rating <= 5
    /\ \A n \in {-1, 0, 6, 7} :
         LET c == create_review(reviews, review_seq, clock,
                                With(BaseReview, "rating", Some(n)))
         IN  c.code = 422 /\ c.raised /\ c.rows = reviews

\* create_review has just refused a request with reviews of rating 1 and 5 stored
C15_Witness ==
    /\ last = Answer("create_review", 422)
    /\ \E i, j \in DOMAIN reviews : reviews[i].rating = 1 /\ reviews[j].rating = 5

\* C16: a review is write-once: from its insert until its delete no request
\* to the review or the reservation endpoints changes a field of a stored
\* review.
C16_ReviewWriteOnce ==
    [][\A i \in DOMAIN reviews \cap DOMAIN reviews' : reviews'[i] = reviews[i]]_vars

\* the first review outlived the insert of a second one, its delete and a
\* request to the reservations router
C16_Witness ==
    /\ last.op \in {"get_reservations", "get_reservation"}
    /\ review_seq = 2
    /\ DOMAIN reviews = {1}


-----------------------------------------------------------------------------
(* Properties of the scoped transaction *)

\* C17: get_db commits the writes of its body exactly when the body completes
\* without error; when the body (or the commit) raises at any point, every
\* write made inside it is rolled back, the stored rows are those before the
\* request, and the error is propagated to the caller.
C17_ScopedTransaction ==
    (tx.pc = "idle" /\ tx.conn # "none") =>
      /\ tx.committed <=> IsNull(tx.error)
      /\ tx.committed => tx.ran
      /\ IsNull(tx.error) =>
           /\ reservations = tx.work.rows
           /\ reservation_seq = tx.work.seq
           /\ last = Answer(Val(tx.req).op, tx.code)
      /\ ~IsNull(tx.error) =>
           /\ reservations = tx.before.rows
           /\ reservation_seq = tx.before.seq
           /\ last = Answer(Val(tx.req).op, Val(tx.error))
      /\ reservations =
           get_db(tx.before.rows,
                  [rows |-> tx.work.rows, raised |-> ~IsNull(tx.error)]).rows

\* a request has ended in 500 after its handler had changed the rows
C17_Witness ==
    /\ tx.pc = "idle"
    /\ tx.error = Some(500)
    /\ tx.ran
    /\ tx.work.rows # tx.before.rows

\* C18: every connection opened by get_db is eventually closed, on every
\* exit path of the request: normal return, an HTTPException raised by the
\* handler (404, 400), and an unexpected storage fault; no connection is
\* open once the request has been answered.
C18_ConnectionClosed ==
    /\ [](tx.pc = "idle" => tx.conn # "open")
    /\ (tx.conn = "open") ~> (tx.conn = "closed")

\* the connection of a request whose handler raised 404 is closed
C18_Witness ==
    /\ tx.conn = "closed"
    /\ tx.error = Some(404)
    /\ last.code = 404


-----------------------------------------------------------------------------
(* Properties of the client *)

\* C19: cancelReservation(id) is equivalent to updateReservation(id,
\* {status: 'cancelled'}): from the same stored rows both send the same
\* request, leave the same rows (status 'cancelled', updated_at refreshed,
\* every other field and row unchanged) and settle to the same result or
\* error.
C19_CancelIsUpdate ==
    \A id \in ReservationIds \cup {reservation_seq + 1} :
      LET c == cancelReservation(reservations, clock, id)
          u == updateReservation(reservations, clock, id,
                                 [status |-> Some("cancelled"), notes |-> UNDEFINED])
      IN  /\ c.request = u.request
          /\ c.rows = u.rows
          /\ c.result = u.result
          /\ c.request = [method |-> "PATCH", id |-> id,
                          body |-> Single("status", Some("cancelled"))]
          /\ IF id \in DOMAIN reservations
             THEN /\ c.rows = [reservations EXCEPT
                                 ![id] = [[@ EXCEPT !.status = Some("cancelled")]
                                             EXCEPT !.updated_at = clock]]
                  /\ ~c.result.rejected
                  /\ c.result.value = Some(c.rows[id])
             ELSE /\ c.rows = reservations
                  /\ c.result.rejected
                  /\ c.result.message = <<"Reservation not found">>

\* a reservation that had been confirmed has just been cancelled, a second
\* after its insert
C19_Witness ==
    /\ last = Answer("update_reservation", 200)
    /\ clock = 1
    /\ \A i \in DOMAIN reservations :
         /\ reservations[i].status = Some("cancelled")
         /\ reservations[i].updated_at = clock
         /\ reservations[i].created_at < clock
    /\ reservations # EmptyTable


-----------------------------------------------------------------------------
(* Status codes *)

\* C20: every request to the reservation and review endpoints ends in the
\* status code of its outcome: 404 when the id is not stored, 400 or 422 for
\* a validation failure, 500 for a storage fault (the NOT NULL constraint
\* refusing an explicit null counts as one here), and on success 200 for
\* reads and updates, 201 for creates, 204 for deletes.
C20_StatusCodes ==
    /\ \A id \in ReservationIds :
         /\ get_reservation(reservations, id).code =
              IF id \in DOMAIN reservations THEN 200 ELSE 404
         /\ delete_reservation(reservations, id).code =
              IF id \in DOMAIN reservations THEN 204 ELSE 404
         /\ \A body \in ReservationPatches :
              LET u == update_reservation(reservations, clock, id, body)
                  update_data == ReservationUpdateDump(body)
              IN  u.code =
                    IF ~ReservationUpdateValid(body) THEN 422
                    ELSE IF id \notin DOMAIN reservations THEN 404
                    ELSE IF update_data = EmptyBody THEN 400
                    ELSE IF \E col \in DOMAIN update_data \cap ReservationNotNull :
                              IsNull(update_data[col]) THEN 500
                    ELSE 200
    /\ \A body \in ReservationBodies :
         create_reservation(reservations, reservation_seq, clock, body).code =
           IF ReservationCreateValid(body) THEN 201 ELSE 422
    /\ \A rf \in ReservationRestaurantFilters, sf \in ReservationStatusFilters :
         \A r \in get_reservations(reservations, rf, sf) : r.code = 200
    /\ \A id \in ReviewIds :
         /\ get_review(reviews, id).code = IF id \in DOMAIN reviews THEN 200 ELSE 404
         /\ delete_review(reviews, id).code = IF id \in DOMAIN reviews THEN 204 ELSE 404
    /\ \A body \in ReviewBodies :
         create_review(reviews, review_seq, clock, body).code =
           IF ReviewCreateValid(body) THEN 201 ELSE 422

\* a read of a stored reservation has just been answered 500
C20_Witness ==
    /\ last = Answer("get_reservation", 500)
    /\ reservations # EmptyTable


-----------------------------------------------------------------------------
(* C21 *)

\* restaurant id strings of list requests: empty, plain, and one with quote
\* characters and SQL tokens
C21_Ids == {"", "r1", "r2", QuoteId}

\* both list endpoints, asked for restaurant id s alone, select exactly the
\* stored rows whose restaurant_id equals s
C21_ListIs(s) ==
    LET wantR == {reservations[i] : i \in {j \in DOMAIN reservations :
                                             reservations[j].restaurant_id = s}}
        wantV == {reviews[i] : i \in {j \in DOMAIN reviews :
                                        reviews[j].restaurant_id = s}}
        resps == get_reservations(reservations, Some(s), NULL)
        lists == get_reviews(reviews, Some(s), NULL, NULL, NULL)
    IN  /\ resps # {}
        /\ \A r \in resps :
             r.code = 200 =>
                LET l == Val(r.body)
                IN  /\ {l[k] : k \in 1..Len(l)} = wantR
                    /\ Len(l) = Cardinality(wantR)
        /\ lists # {}
        /\ \A r \in lists :
             /\ {r.reviews[k] : k \in 1..Len(r.reviews)} = wantV
             /\ Len(r.reviews) = Cardinality(wantV)

\* the values get_reviews writes into the SQL text: a request is answered
\* only when sort_by is created_at or rating and order is asc or desc
C21_Interpolated ==
    \A sort_by \in {"created_at", "rating", "id", "rating; DROP TABLE reviews", QuoteId},
       order \in {"asc", "desc", "ASC", "desc; --", QuoteId} :
      get_reviews(reviews, NULL, NULL, Some(sort_by), Some(order)) # {}
         => sort_by \in {"created_at", "rating"} /\ order \in {"asc", "desc"}

\* C21 as stated: for every restaurant id string, the empty one included,
\* the list result is exactly the stored rows whose restaurant_id equals
\* that string, and sort_by and order are restricted to their fixed sets.
C21_EveryString ==
    /\ \A s \in C21_Ids : C21_ListIs(s)
    /\ C21_Interpolated

\* C21: for every non-empty restaurant id string, also one with a quote
\* character or SQL tokens, each list the endpoints answer is exactly the
\* stored rows whose restaurant_id equals that string, and the only request
\* values written into SQL text (sort_by, order) are restricted to
\* {created_at, rating} and {asc, desc}.
C21_InjectionSafe ==
    /\ \A s \in C21_Ids \ {""} : C21_ListIs(s)
    /\ C21_Interpolated

\* a list has been answered while a reservation and a review of different
\* restaurants are stored
C21_Witness ==
    /\ last.op \in {"get_reservations", "get_reviews"}
    /\ last.code = 200
    /\ \E i \in DOMAIN reservations, j \in DOMAIN reviews :
         reservations[i].restaurant_id # reviews[j].restaurant_id


-----------------------------------------------------------------------------
(* C22 *)

\* the responses of the reviews router and of the reservation endpoints with
\* a path parameter to the requests the model issues in the current state
C22_Responses ==
    {create_review(reviews, review_seq, clock, body) : body \in ReviewBodies}
    \cup {get_review(reviews, id) : id \in ReviewIds}
    \cup {delete_review(reviews, id) : id \in ReviewIds}
    \cup {get_reservation(reservations, id) : id \in ReservationIds}
    \cup {update_reservation(reservations, clock, id, body) :
            id \in ReservationIds, body \in ReservationPatches}

\* C22: apiFetch resolves or rejects by the response status only: a non-OK
\* response rejects with an Error whose message is the body's detail field
\* when present and 'API error: <status>' otherwise (also when the body is
\* not JSON); a 204 response resolves to undefined; any other OK response
\* resolves to the parsed JSON body.
C22_ApiFetch ==
    \A response \in C22_Responses :
      LET f == apiFetch(response)
      IN  IF response.code \notin 200..299
          THEN /\ f.rejected
               /\ f.message = IF response.detail # "" THEN <<response.detail>>
                              ELSE <<"API error: ", response.code>>
          ELSE /\ ~f.rejected
               /\ f.value = IF response.code = 204 THEN NULL ELSE response.body

\* the same but for the message of a rejection
C22_Dispatch ==
    \A response \in C22_Responses :
      LET f == apiFetch(response)
      IN  IF response.code \notin 200..299
          THEN f.rejected /\ f.value = NULL
          ELSE /\ ~f.rejected
               /\ f.message = <<>>
               /\ f.value = IF response.code = 204 THEN NULL ELSE response.body

\* create_review has just answered a body with 422
C22_Witness == last = Answer("create_review", 422)


-----------------------------------------------------------------------------
(* C23 *)

\* C23: in get_reviews the stats are computed over all stored reviews that
\* match the restaurant filter only: a min_rating filter narrows the
\* returned list to the matching reviews of at least that rating but never
\* changes total_reviews or avg_rating, so total_reviews is at least the
\* length of the returned list.
C23_StatsIgnoreMinRating ==
    \A rid \in {NULL, Some("r1"), Some("r2")}, min_rating \in {NULL} \cup {Some(n) : n \in 1..5} :
      LET match == {i \in DOMAIN reviews : IsNull(rid) \/ reviews[i].restaurant_id = Val(rid)}
          narrowed == {i \in match : IsNull(min_rating) \/ reviews[i].rating >= Val(min_rating)}
          all == get_reviews(reviews, rid, NULL, NULL, NULL)
          some == get_reviews(reviews, rid, min_rating, NULL, NULL)
      IN  /\ some # {}
          /\ \A r \in some :
               /\ {r.reviews[k].id : k \in 1..Len(r.reviews)} = narrowed
               /\ Len(r.reviews) = Cardinality(narrowed)
               /\ r.stats.total_reviews = Cardinality(match)
               /\ r.stats.total_reviews >= Len(r.reviews)
               /\ \A a \in all : r.stats = a.stats

\* get_reviews has just answered, and with min_rating 4 its total_reviews
\* exceeds the length of the list it returns
C23_Witness ==
    /\ last = Answer("get_reviews", 200)
    /\ \E r \in get_reviews(reviews, Some("r1"), Some(4), NULL, NULL) :
         /\ Len(r.reviews) >= 1
         /\ r.stats.total_reviews > Len(r.reviews)


-----------------------------------------------------------------------------
(* Properties of the components of the restaurant detail page *)

\* the form holds a reviewer name and a rating in 1..5 and its optional
\* fields are blank
C24_BlankOptional(form) ==
    /\ form.mounted
    /\ Val(form.formData.reviewer_name) # ""
    /\ Val(form.formData.rating) \in 1..5
    /\ \A k \in {"reviewer_email", "title", "comment", "visit_date"} :
         Val(form.formData[k]) = ""

\* C24: a review submitted through ReviewForm with a reviewer name and a
\* rating in 1..5, and with the optional email, title, comment and visit
\* date left blank, passes the backend's ReviewCreate validation and is
\* persisted.
C24_BlankOptionalAccepted ==
    (C24_BlankOptional(reviewForm) /\ ReviewForm_onSubmit(reviewForm)) =>
        LET h == ReviewForm_handleSubmit(reviewForm)
        IN  /\ Len(h.calls) = 1
            /\ LET body == h.calls[1].arg
                   r == create_review(reviews, review_seq, clock, body)
               IN  /\ ReviewCreateValid(body)
                   /\ r.code = 201
                   /\ review_seq + 1 \in DOMAIN r.rows
                   /\ r.rows[review_seq + 1].reviewer_name = Val(body["reviewer_name"])

\* the backend has answered a createReview of a form with blank optional
\* fields
C24_Witness ==
    \E i \in DOMAIN requests :
      /\ requests[i].call = "createReview"
      /\ requests[i].pc = "answered"
      /\ requests[i].result # FailedToFetch
      /\ Val(requests[i].arg["reviewer_name"]) = "A"
      /\ Val(requests[i].arg["rating"]) = 5
      /\ \A k \in {"reviewer_email", "title", "comment", "visit_date"} :
           Val(requests[i].arg[k]) = ""


\* the getReviews calls of the mounted ReviewsList, in the order it made them
C25_Fetches ==
    {i \in DOMAIN requests :
       requests[i].call = "getReviews" /\ requests[i].instance = reviewsList.instance}

\* C25: in ReviewsList, once all outstanding fetches have completed, the
\* displayed reviews and stats are those of the response to the most
\* recently requested (restaurantId, sortBy, sortOrder, refreshTrigger): a
\* response to an earlier request that arrives after a later one never
\* overwrites the later one's result.
C25_LatestResponseShown ==
    (/\ reviewsList.mounted
     /\ C25_Fetches # {}
     /\ \A i \in C25_Fetches : requests[i].pc = "settled") =>
        LET latest == requests[CHOOSE i \in C25_Fetches : \A j \in C25_Fetches : j <= i]
        IN  ~latest.result.rejected =>
               /\ reviewsList.reviews = Val(latest.result.value).reviews
               /\ reviewsList.stats = Some(Val(latest.result.value).stats)
               /\ IsNull(reviewsList.error)

\* two fetches of the mounted ReviewsList have completed with different
\* responses, the later one with a list
C25_Witness ==
    /\ reviewsList.mounted
    /\ \A i \in C25_Fetches : requests[i].pc = "settled"
    /\ \E i, j \in C25_Fetches :
         /\ i < j
         /\ ~requests[j].result.rejected
         /\ requests[i].result # requests[j].result


\* C27: submitting ReviewForm while the rating is 0 (no star selected) sends
\* no request: createReview is not called, the error 'Please select a
\* rating' is set, and formData and isSubmitting are unchanged.
C27_NoRatingNoRequest ==
    [][(ReviewFormSubmit /\ Val(reviewForm.formData.rating) = 0) =>
          /\ requests' = requests
          /\ reviewForm'.error = Some(<<"Please select a rating">>)
          /\ reviewForm'.formData = reviewForm.formData
          /\ reviewForm'.isSubmitting = reviewForm.isSubmitting
          /\ UNCHANGED <<reviews, review_seq, page, reviewsList>>]_vars

\* the form was submitted with a name and no star selected
C27_Witness ==
    /\ reviewForm.mounted
    /\ reviewForm.error = Some(<<"Please select a rating">>)
    /\ Val(reviewForm.formData.rating) = 0
    /\ Val(reviewForm.formData.reviewer_name) = "A"
    /\ ~reviewForm.isSubmitting


\* the step settles a createReview that the backend accepted
C28_Success ==
    \E i \in DOMAIN requests :
      /\ requests[i].call = "createReview"
      /\ requests[i].pc = "answered"
      /\ ~requests[i].result.rejected
      /\ requests'[i].pc = "settled"

\* the step appends one getReviews call of the mounted ReviewsList, made
\* with the sort it shows
C28_Reload ==
    /\ Len(requests') = Len(requests) + 1
    /\ requests'[Len(requests')] =
          Call("getReviews", reviewsList.instance,
               getReviews(Some(RestaurantId),
                          [sortBy |-> Some(reviewsList.sortBy),
                           order |-> Some(reviewsList.sortOrder)]))
    /\ reviewsList'.loading

\* the backend has accepted a createReview and no getReviews call has been
\* made after that createReview
C28_Due ==
    \E k \in DOMAIN requests :
      /\ requests[k].call = "createReview"
      /\ requests[k].pc \in {"answered", "settled"}
      /\ ~requests[k].result.rejected
      /\ ~\E j \in DOMAIN requests : j > k /\ requests[j].call = "getReviews"

\* C28: every successful review submission on the restaurant detail page
\* increments the refresh trigger by one, and every change of the trigger
\* makes the mounted ReviewsList issue a new getReviews request, so after a
\* successful submit the list is eventually reloaded from the backend (a
\* getReviews call is made after the createReview) while it is mounted.
C28_SubmitReloadsList ==
    /\ [][/\ C28_Success => page'.reviewRefreshTrigger = page.reviewRefreshTrigger + 1
          /\ (page'.reviewRefreshTrigger # page.reviewRefreshTrigger /\ reviewsList.mounted)
                => C28_Reload]_vars
    /\ (C28_Due /\ reviewsList.mounted) ~> (~C28_Due \/ ~reviewsList.mounted)

\* a review was submitted with success, the trigger is 1, and the list shows
\* the response of a getReviews made afterwards
C28_Witness ==
    /\ page.reviewRefreshTrigger = 1
    /\ reviewsList.mounted
    /\ \E k, j \in DOMAIN requests :
         /\ k < j
         /\ requests[k].call = "createReview"
         /\ requests[k].pc = "settled"
         /\ ~requests[k].result.rejected
         /\ requests[j].call = "getReviews"
         /\ requests[j].pc = "settled"
         /\ ~requests[j].result.rejected
         /\ reviewsList.reviews = Val(requests[j].result.value).reviews
         /\ \E n \in 1..Len(reviewsList.reviews) :
              reviewsList.reviews[n].id = Val(requests[k].result.value).id


\* the step resumes handleSubmit of the mounted form on the result of call i
C29_Resumes(i, call, form) ==
    /\ i \in DOMAIN requests
    /\ requests[i].call = call
    /\ requests[i].pc = "answered"
    /\ requests'[i].pc = "settled"
    /\ form.mounted
    /\ form.instance = requests[i].instance

\* a submitting form has its create call outstanding
C29_Outstanding(call, form) ==
    (form.mounted /\ form.isSubmitting) =>
        \E i \in DOMAIN requests :
          /\ requests[i].call = call
          /\ requests[i].instance = form.instance
          /\ requests[i].pc # "settled"

\* C29: in ReservationForm and ReviewForm, every submit that sets
\* isSubmitting to true eventually sets it back to false once the create
\* request settles; on success the form fields are reset to their initial
\* values and onSuccess is called, on failure the entered form data is kept
\* and the error message is set.
C29_SubmitSettles ==
    /\ [](C29_Outstanding("createReview", reviewForm)
          /\ C29_Outstanding("createReservation", reservationForm))
    /\ [][\A i \in 1..(MaxRequests + 1) :
            /\ C29_Resumes(i, "createReview", reviewForm) =>
                 /\ ~reviewForm'.isSubmitting
                 /\ IF ~requests[i].result.rejected
                    THEN /\ reviewForm'.formData = ReviewFormData(RestaurantId)
                         /\ page'.reviewRefreshTrigger = page.reviewRefreshTrigger + 1
                    ELSE /\ reviewForm'.formData = reviewForm.formData
                         /\ reviewForm'.error = Some(requests[i].result.message)
            /\ C29_Resumes(i, "createReservation", reservationForm) =>
                 /\ ~reservationForm'.isSubmitting
                 /\ IF ~requests[i].result.rejected
                    THEN reservationForm'.formData = ReservationFormData(RestaurantId)
                    ELSE /\ reservationForm'.formData = reservationForm.formData
                         /\ reservationForm'.error = Some(requests[i].result.message)]_vars
    /\ reviewForm.isSubmitting ~> ~reviewForm.isSubmitting
    /\ reservationForm.isSubmitting ~> ~reservationForm.isSubmitting

\* a submit of ReviewForm has failed: the form is no longer submitting,
\* shows the error of the call and keeps the data entered
C29_Witness ==
    /\ reviewForm.mounted
    /\ ~reviewForm.isSubmitting
    /\ Val(reviewForm.formData.reviewer_name) = "A"
    /\ Val(reviewForm.formData.rating) = 5
    /\ \E i \in DOMAIN requests :
         /\ requests[i].call = "createReview"
         /\ requests[i].instance = reviewForm.instance
         /\ requests[i].pc = "settled"
         /\ requests[i].result.rejected
         /\ reviewForm.error = Some(requests[i].result.message)


\* the create calls of the component mounted as n that have not settled
C30_InFlight(call, n) ==
    {i \in DOMAIN requests :
       /\ requests[i].call = call
       /\ requests[i].instance = n
       /\ requests[i].pc # "settled"}

C26_UpdatedRow(s) ==
    /\ ~IsNull(s.body)
    /\ Val(s.body).id = Val(s.req).id
    /\ \A col \in DOMAIN Val(s.req).body :
         Val(s.body)[col] = ReservationStored(col, Val(s.req).body[col])

\* C26: for every interleaving of a PATCH and a DELETE request on the same
\* reservation id issued over separate connections, the PATCH ends either
\* with the updated row or with NotFound (404), never with an internal
\* error, and the DELETE ends with 204 or 404.
C26_PatchAndDeleteEnd ==
    /\ sessions["PATCH"].pc = "done" =>
          \/ sessions["PATCH"].code = 404
          \/ sessions["PATCH"].code = 200 /\ C26_UpdatedRow(sessions["PATCH"])
    /\ sessions["DELETE"].pc = "done" => sessions["DELETE"].code \in {204, 404}

\* what holds of the code: the DELETE ends with 204 or 404; the PATCH ends
\* with the updated row, with 404, or with 500, and with 500 only when the
\* row is gone from the committed content
C26_Ends ==
    /\ sessions["DELETE"].pc = "done" => sessions["DELETE"].code \in {204, 404}
    /\ sessions["PATCH"].pc = "done" =>
          \/ sessions["PATCH"].code = 404
          \/ sessions["PATCH"].code = 200 /\ C26_UpdatedRow(sessions["PATCH"])
          \/ /\ sessions["PATCH"].code = 500
             /\ Val(sessions["PATCH"].req).id \notin DOMAIN reservations

\* both requests have ended, the DELETE with 204 and the PATCH with the
\* internal error
C26_Witness ==
    /\ sessions["PATCH"].pc = "done"
    /\ sessions["DELETE"].pc = "done"
    /\ sessions["DELETE"].code = 204
    /\ sessions["PATCH"].code = 500

=============================================================================
